---- MODULE Spec2Model ----
(***************************************************************************)
(* Reference Extraction & Quality-Scoring Pipeline                         *)
(* (src/agents/pdf_reference_extraction_agent.py, class ReferenceParser).  *)
(*                                                                         *)
(* Text representation.  A Python str is a sequence of tokens; a token is   *)
(* a record [c, v]:                                                         *)
(*   c = "sp"  one space character                                          *)
(*   c = "nl"  one newline character                                        *)
(*   c = "pn"  one character of " .,;:" other than the space (a full stop)  *)
(*   c = "wd"  a word, v = [w, up]: w names its characters                  *)
(*             case-insensitively, up says whether it has capitals          *)
(*   c = "mk"  a bracket marker "[v]", v a decimal number                   *)
(*   c = "hd"  a section-header phrase (v = 1 "references", 2               *)
(*             "bibliography", 3 "works cited", 4 "literature cited",       *)
(*             5 "citations"), in any letter case                           *)
(*   c = "tr"  a phrase that opens a trailing section (v = 1 "appendix",    *)
(*             2 "acknowledgments", 3 "author information", 4 "about the     *)
(*             authors"), in any letter case                                 *)
(*   c = "tx"  a run of reference text on one line that contains no "[",    *)
(*             v = [id, year] (see BodyTable)                               *)
(*   c = "md"  the characters a metadata pattern captured in such a run,    *)
(*             v = those characters                                          *)
(*   c = "hw"  the first word of a header or trailer phrase of several      *)
(*             words, v = the token of the phrase                            *)
(* Scores are kept in hundredths (0.3 is 30, 1.0 is 100), an Optional[x]    *)
(* as a sequence of length 0 (None) or 1.                                   *)
(***************************************************************************)
EXTENDS Integers, Sequences, FiniteSets, TLC

VARIABLES
    pc,                 \* which call has been made
    refs,               \* argument of _deduplicate_references
    unique_references,  \* its return value
    unique_twice,       \* the return value of a second run on unique_references
    raw_text,           \* argument of extract_references_from_text
    references_section, \* what _find_references_section returned
    section_lines,      \* what _split_into_references returned for the section
    candidates,         \* the references of both passes, before deduplication
    returned,           \* the list extract_references_from_text returned
    PDF_LIBRARIES_AVAILABLE, \* whether the imports of lines 21-25 succeeded
    pdf_path,           \* argument of extract_text_from_pdf: what each library reads there
    calls,              \* the backends invoked so far, in order
    extraction_results, \* the dictionary of the loop, in insertion order
    best_result,        \* what _select_best_extraction returned
    extraction,         \* the dictionary extract_text_from_pdf returned
    SPREADSHEET_LIBRARIES_AVAILABLE, \* whether the imports of lines 33-35 succeeded
    processing_stats,   \* the statistics of the agent
    history,            \* the calls of extract_references_from_pdf since the
                        \* last reset: argument, locals, files written, and
                        \* the result as integrate_with_aras has left it
    batch_result        \* the dictionary the last call of the agent returned,
                        \* if it was a batch

dedup_vars == <<refs, unique_references, unique_twice>>
text_vars == <<raw_text, references_section, section_lines, candidates, returned>>
pdf_vars == <<PDF_LIBRARIES_AVAILABLE, pdf_path, calls, extraction_results,
              best_result, extraction>>
agent_vars == <<SPREADSHEET_LIBRARIES_AVAILABLE, processing_stats, history,
                batch_result>>
vars == <<pc, dedup_vars, text_vars, pdf_vars, agent_vars>>

----------------------------------------------------------------------------
(* Bounds of the model. *)

MaxRefs == 3        \* longest list handed to _deduplicate_references
VocabSize == 6      \* title words w1..w6
MaxLines == 2       \* lines of a document after its header
MaxMarker == 2      \* bracket markers [1]..[MaxMarker]
MaxNotes == 1       \* notes of a reference beyond which it is not integrated again

----------------------------------------------------------------------------
(* Tokens and str operations. *)

SP == [c |-> "sp", v |-> 0]
NL == [c |-> "nl", v |-> 0]
PN == [c |-> "pn", v |-> 0]
Wd(w, up) == [c |-> "wd", v |-> [w |-> w, up |-> up]]
Mk(k) == [c |-> "mk", v |-> k]
Hd(h) == [c |-> "hd", v |-> h]
Tx(b) == [c |-> "tx", v |-> b]
Tr(e) == [c |-> "tr", v |-> e]

IsSpace(t) == t.c \in {"sp", "nl"}

SetMin(S) == CHOOSE x \in S : \A y \in S : x <= y
SetMax(S) == CHOOSE x \in S : \A y \in S : x >= y

\* s with the leading and trailing tokens of the classes in cs removed
StripClasses(s, cs) ==
    LET keep == {i \in 1..Len(s) : s[i].c \notin cs}
    IN  IF keep = {} THEN <<>> ELSE SubSeq(s, SetMin(keep), SetMax(keep))

\* str.strip()
strip(s) == StripClasses(s, {"sp", "nl"})

----------------------------------------------------------------------------
(* Reference texts.  A "tx" token stands for one of the texts below; v.id   *)
(* names the text and v.year, for texts 1, 7 and 14, the four digits in     *)
(* place of YYYY.  BodyTable records what the regular expressions of the source   *)
(* find in each text (the columns are read off the patterns of              *)
(* _initialize_citation_patterns, _is_reference_start,                      *)
(* _extract_additional_metadata and _determine_reference_type):             *)
(*  1 Smith, J. A. (YYYY). Machine learning in research. AI Journal, 15(3), 45-62 *)
(*  2 A. Author, "Deep networks", IEEE Trans, vol. 5, no. 2, pp. 10-20, 2020 *)
(*  3 Doe, Jane. "Some Title". Journal Name, vol. 3, no. 1, 2019, pp. 5-9    *)
(*  4 this line holds plain words only and nothing else here                *)
(*  5 plain words of no shape                                               *)
(*  6 short entry                                                           *)
(*  7 Lee, K. (YYYY). Graph methods. Data Press, 7(2), 1-9, doi: 10.1/x vol. 7 no. 2 pp. 1-9 https://a.b *)
(*  8 tiny note alone        9 brief memo added     10 quick remark placed  *)
(* 11 small caption beside   12 minor footnote listed                       *)
(* 13 Doe, Jane. Collected Essays. New York: Penguin, 2019. Print           *)
(* 14 A. Author, Smith, J. (YYYY). Survey notes. Harper, 2021. Print        *)
(* 15 Roe, Mary Ann. "Some Title". Review Quarterly 12, no. 3 (2019): 5-9   *)
(* 16 see the journal at https://a.b doi: 10.1/x vol. 7 no. 2 pp. 1-9 ISBN: 1-2-3-4 *)
(*   len: characters; start: _is_reference_start of a line that begins     *)
(*   with the text; styles: <<style, n>> when the n-th pattern of the style *)
(*   matches the text alone, for ieee "[k] " + text; open: <<style, n>>     *)
(*   when the pattern matches the text up to its last [^X]+ and ends in     *)
(*   what follows the text: the second apa pattern at text 1 ends at the    *)
(*   next full stop, the second chicago pattern at text 3 runs to the next  *)
(*   colon and needs r'\s*([^,]+),\s*(\d{4})\.' behind it; dot: the text     *)
(*   has a full stop; colon: "imprint" when behind the first colon of the   *)
(*   text r'\s*([^,]+),\s*(\d{4})\.' matches, "other" when it has a colon     *)
(*   and that does not match whatever follows the text (no text has a       *)
(*   comma before four digits and a full stop elsewhere), "none" without a  *)
(*   colon; apa, ieee: the groups author, title and venue of the match (of  *)
(*   the first pattern when both match; Wd(0, FALSE) stands for "(YYYY)");  *)
(*   meta: <<name, characters>> for each metadata pattern that matches and  *)
(*   what it captures; tail: the metadata patterns whose capture ends the   *)
(*   text with a class that the characters behind the text can continue     *)
(*   ([^\s]+ of the url; no token begins with a digit or hyphen, so [\d-]+  *)
(*   never goes on); kw: the reference-type keyword families the text       *)
(*   contains; words: for each whitespace-separated word <<w, up, dots>>,   *)
(*   the word without its closing full stops (w = 0: the year in           *)
(*   brackets), whether it has capitals, and the number of closing full     *)
(*   stops.  A word has the same w in every text and in the groups.         *)
(***************************************************************************)

\* the run of n words numbered from w, separated by single spaces, of which
\* the first caps are written with a capital
RECURSIVE Phrase(_, _, _)
Phrase(w, n, caps) ==
    IF n = 0 THEN <<>>
    ELSE IF n = 1 THEN <<Wd(w, caps > 0)>>
    ELSE <<Wd(w, caps > 0), SP>> \o Phrase(w + 1, n - 1, caps - 1)

NoBody ==
    [len |-> 0, start |-> FALSE, styles |-> {}, open |-> {},
     dot |-> FALSE, colon |-> "none",
     apa |-> [author |-> <<>>, title |-> <<>>, venue |-> <<>>],
     ieee |-> [author |-> <<>>, title |-> <<>>, venue |-> <<>>],
     meta |-> {}, tail |-> {}, kw |-> {}, words |-> <<>>]

BodyTable ==
    [id \in 1..16 |->
    CASE id = 1 -> [NoBody EXCEPT !.len = 75, !.start = TRUE,
                        !.styles = {<<"apa", 1>>}, !.open = {<<"apa", 2>>},
                        !.dot = TRUE,
                        !.apa = [author |-> <<Wd(3001, TRUE), SP, Wd(3002, TRUE), PN,
                                              SP, Wd(3003, TRUE), PN>>,
                                 title |-> Phrase(111, 4, 1),
                                 venue |-> Phrase(121, 2, 2)],
                        !.kw = {"journal"},
                        !.words =
                          <<<<3001, TRUE, 0>>, <<3002, TRUE, 1>>, <<3003, TRUE, 1>>,
                            <<0, FALSE, 1>>, <<111, TRUE, 0>>, <<112, FALSE, 0>>,
                            <<113, FALSE, 0>>, <<114, FALSE, 1>>, <<121, TRUE, 0>>,
                            <<3004, TRUE, 0>>, <<3005, FALSE, 0>>, <<3006, FALSE, 0>>>>]
      [] id = 2 -> [NoBody EXCEPT !.len = 70,
                        !.styles = {<<"ieee", 1>>}, !.dot = TRUE,
                        !.ieee = [author |-> <<Wd(3003, TRUE), PN, SP, Wd(201, TRUE)>>,
                                  title |-> Phrase(211, 2, 1),
                                  venue |-> Phrase(221, 2, 2)],
                        !.meta = {<<"volume", "5">>, <<"issue", "2">>,
                                  <<"pages", "10-20">>},
                        !.kw = {"journal"},
                        !.words =
                          <<<<3003, TRUE, 1>>, <<3007, TRUE, 0>>, <<3008, TRUE, 0>>,
                            <<3009, FALSE, 0>>, <<221, TRUE, 0>>, <<3010, TRUE, 0>>,
                            <<3011, FALSE, 1>>, <<3012, FALSE, 0>>, <<3013, FALSE, 1>>,
                            <<3014, FALSE, 0>>, <<3015, FALSE, 1>>, <<3016, FALSE, 0>>,
                            <<3017, FALSE, 0>>>>]
      [] id = 3 -> [NoBody EXCEPT !.len = 67, !.start = TRUE,
                        !.styles = {<<"mla", 1>>}, !.open = {<<"chicago", 2>>},
                        !.dot = TRUE,
                        !.meta = {<<"volume", "3">>, <<"issue", "1">>,
                                  <<"pages", "5-9">>},
                        !.kw = {"journal"},
                        !.words =
                          <<<<3018, TRUE, 0>>, <<3019, TRUE, 1>>, <<3020, TRUE, 0>>,
                            <<3021, TRUE, 1>>, <<122, TRUE, 0>>, <<3022, TRUE, 0>>,
                            <<3011, FALSE, 1>>, <<3023, FALSE, 0>>, <<3013, FALSE, 1>>,
                            <<3024, FALSE, 0>>, <<3025, FALSE, 0>>, <<3015, FALSE, 1>>,
                            <<3026, FALSE, 0>>>>]
      [] id = 4 -> [NoBody EXCEPT !.len = 54,
                        !.words =
                          <<<<3027, FALSE, 0>>, <<3028, FALSE, 0>>, <<3029, FALSE, 0>>,
                            <<3030, FALSE, 0>>, <<3031, FALSE, 0>>, <<3032, FALSE, 0>>,
                            <<3033, FALSE, 0>>, <<3034, FALSE, 0>>, <<3035, FALSE, 0>>,
                            <<3036, FALSE, 0>>>>]
      [] id = 5 -> [NoBody EXCEPT !.len = 23,
                        !.words =
                          <<<<3030, FALSE, 0>>, <<3031, FALSE, 0>>, <<3037, FALSE, 0>>,
                            <<3013, FALSE, 0>>, <<3038, FALSE, 0>>>>]
      [] id = 6 -> [NoBody EXCEPT !.len = 11,
                        !.words =
                          <<<<3039, FALSE, 0>>, <<3040, FALSE, 0>>>>]
      [] id = 7 -> [NoBody EXCEPT !.len = 98, !.start = TRUE,
                        !.styles = {<<"apa", 1>>, <<"apa", 2>>},
                        !.dot = TRUE, !.colon = "other",
                        !.apa = [author |-> <<Wd(3041, TRUE), SP, Wd(3042, TRUE), PN>>,
                                 title |-> Phrase(711, 2, 1),
                                 venue |-> Phrase(721, 2, 2)],
                        !.meta = {<<"doi", "10.1/x">>, <<"url", "https://a.b">>,
                                  <<"volume", "7">>, <<"issue", "2">>,
                                  <<"pages", "1-9">>},
                        !.tail = {"url"},
                        !.kw = {"journal", "book", "website"},
                        !.words =
                          <<<<3041, TRUE, 0>>, <<3042, TRUE, 1>>, <<0, FALSE, 1>>,
                            <<711, TRUE, 0>>, <<712, FALSE, 1>>, <<721, TRUE, 0>>,
                            <<3043, TRUE, 0>>, <<3044, FALSE, 0>>, <<3045, FALSE, 0>>,
                            <<3046, FALSE, 0>>, <<3047, FALSE, 0>>, <<3011, FALSE, 1>>,
                            <<3048, FALSE, 0>>, <<3013, FALSE, 1>>, <<3049, FALSE, 0>>,
                            <<3015, FALSE, 1>>, <<3050, FALSE, 0>>, <<3051, FALSE, 0>>>>]
      [] id = 8 -> [NoBody EXCEPT !.len = 15,
                        !.words =
                          <<<<3052, FALSE, 0>>, <<3053, FALSE, 0>>, <<3054, FALSE, 0>>>>]
      [] id = 9 -> [NoBody EXCEPT !.len = 16,
                        !.words =
                          <<<<3055, FALSE, 0>>, <<3056, FALSE, 0>>, <<3057, FALSE, 0>>>>]
      [] id = 10 -> [NoBody EXCEPT !.len = 19,
                        !.words =
                          <<<<3058, FALSE, 0>>, <<3059, FALSE, 0>>, <<3060, FALSE, 0>>>>]
      [] id = 11 -> [NoBody EXCEPT !.len = 20,
                        !.words =
                          <<<<3061, FALSE, 0>>, <<3062, FALSE, 0>>, <<3063, FALSE, 0>>>>]
      [] id = 12 -> [NoBody EXCEPT !.len = 21,
                        !.words =
                          <<<<3064, FALSE, 0>>, <<3065, FALSE, 0>>, <<3066, FALSE, 0>>>>]
      [] id = 13 -> [NoBody EXCEPT !.len = 59, !.start = TRUE,
                         !.styles = {<<"mla", 2>>, <<"chicago", 2>>},
                         !.dot = TRUE, !.colon = "imprint",
                        !.words =
                          <<<<3018, TRUE, 0>>, <<3019, TRUE, 1>>, <<3067, TRUE, 0>>,
                            <<3068, TRUE, 1>>, <<3069, TRUE, 0>>, <<3070, TRUE, 0>>,
                            <<3071, TRUE, 0>>, <<3072, FALSE, 1>>, <<3073, TRUE, 0>>>>]
      [] id = 14 -> [NoBody EXCEPT !.len = 62,
                         !.styles = {<<"apa", 1>>, <<"apa", 2>>, <<"ieee", 2>>},
                         !.dot = TRUE,
                         !.apa = [author |-> <<Wd(3001, TRUE), SP, Wd(3002, TRUE), PN>>,
                                  title |-> Phrase(1411, 2, 1),
                                  venue |-> Phrase(1421, 1, 1)],
                         !.ieee = [author |-> <<Wd(3003, TRUE), PN, SP, Wd(201, TRUE)>>,
                                   title |-> <<Wd(3001, TRUE), SP, Wd(3002, TRUE)>>,
                                   venue |-> <<Wd(0, FALSE), PN, SP>>
                                             \o Phrase(1411, 2, 1)
                                             \o <<PN, SP, Wd(1421, TRUE)>>],
                        !.words =
                          <<<<3003, TRUE, 1>>, <<3007, TRUE, 0>>, <<3001, TRUE, 0>>,
                            <<3002, TRUE, 1>>, <<0, FALSE, 1>>, <<1411, TRUE, 0>>,
                            <<1412, FALSE, 1>>, <<3074, TRUE, 0>>, <<3075, FALSE, 1>>,
                            <<3073, TRUE, 0>>>>]
      [] id = 15 -> [NoBody EXCEPT !.len = 67, !.start = TRUE,
                         !.styles = {<<"chicago", 1>>},
                         !.dot = TRUE, !.colon = "other",
                         !.meta = {<<"issue", "3">>},
                        !.words =
                          <<<<3076, TRUE, 0>>, <<3077, TRUE, 0>>, <<3078, TRUE, 1>>,
                            <<3020, TRUE, 0>>, <<3021, TRUE, 1>>, <<3079, TRUE, 0>>,
                            <<3080, TRUE, 0>>, <<3081, FALSE, 0>>, <<3013, FALSE, 1>>,
                            <<3082, FALSE, 0>>, <<3083, FALSE, 0>>, <<3026, FALSE, 0>>>>]
      [] id = 16 -> [NoBody EXCEPT !.len = 77,
                         !.dot = TRUE, !.colon = "other",
                         !.meta = {<<"doi", "10.1/x">>, <<"url", "https://a.b">>,
                                   <<"isbn", "1-2-3-4">>, <<"volume", "7">>,
                                   <<"issue", "2">>, <<"pages", "1-9">>},
                         !.kw = {"journal", "website"},
                        !.words =
                          <<<<3084, FALSE, 0>>, <<3085, FALSE, 0>>, <<122, FALSE, 0>>,
                            <<3086, FALSE, 0>>, <<3051, FALSE, 0>>, <<3046, FALSE, 0>>,
                            <<3047, FALSE, 0>>, <<3011, FALSE, 1>>, <<3048, FALSE, 0>>,
                            <<3013, FALSE, 1>>, <<3049, FALSE, 0>>, <<3015, FALSE, 1>>,
                            <<3050, FALSE, 0>>, <<3087, TRUE, 0>>, <<3088, FALSE, 0>>>>]
      [] OTHER -> NoBody]

Body(id, year) == [id |-> id, year |-> year]

\* len(str)
RECURSIVE Digits(_)
Digits(k) == IF k < 10 THEN 1 ELSE 1 + Digits(k \div 10)

TokLen(t) ==
    CASE t.c = "mk" -> 2 + Digits(t.v)
      [] t.c = "tx" -> BodyTable[t.v.id].len
      [] t.c = "hd" -> (CASE t.v = 1 -> 10 [] t.v = 2 -> 12 [] t.v = 3 -> 11
                          [] t.v = 4 -> 16 [] OTHER -> 9)
      [] t.c = "tr" -> (CASE t.v = 1 -> 8 [] t.v = 2 -> 15 [] t.v = 3 -> 18
                          [] OTHER -> 17)
      [] OTHER -> 1

RECURSIVE StrLen(_)
StrLen(s) == IF s = <<>> THEN 0 ELSE TokLen(Head(s)) + StrLen(Tail(s))

Some(x) == <<x>>
None == <<>>

\* no call of extract_text_from_pdf has been made
NoExtraction ==
    /\ PDF_LIBRARIES_AVAILABLE = TRUE
    /\ pdf_path = None
    /\ calls = <<>>
    /\ extraction_results = <<>>
    /\ best_result = None
    /\ extraction = None

\* PDFReferenceExtractionAgent.__init__: the statistics of a new agent
NoStatistics ==
    [total_pdfs_processed |-> 0,
     total_references_extracted |-> 0,
     average_confidence_score |-> <<0, 1>>,
     processing_errors |-> <<>>]

\* no call of the agent has been made
NoAgent ==
    /\ SPREADSHEET_LIBRARIES_AVAILABLE = TRUE
    /\ processing_stats = NoStatistics
    /\ history = <<>>
    /\ batch_result = None

\* int() of a string of decimal digits
RECURSIVE int(_)
int(ds) == IF ds = <<>> THEN 0 ELSE 10 * int(SubSeq(ds, 1, Len(ds) - 1)) + ds[Len(ds)]

\* the words of a "tx" run, separated by single spaces: each a
\* whitespace-separated word of the text with its full stops, the word
\* "(YYYY)" being named 10000 + YYYY
RECURSIVE ChunkWords(_, _)
ChunkWords(words, year) ==
    LET Cw(word) ==
            <<Wd(IF word[1] = 0 THEN 10000 + int(year) ELSE word[1], word[2])>>
            \o [k \in 1..word[3] |-> PN]
    IN  IF words = <<>> THEN <<>>
        ELSE IF Len(words) = 1 THEN Cw(words[1])
        ELSE Cw(words[1]) \o <<SP>> \o ChunkWords(Tail(words), year)

\* s with every "tx" token written out in its words
RECURSIVE Expand(_)
Expand(s) ==
    IF \A i \in 1..Len(s) : s[i].c # "tx" THEN s
    ELSE (IF Head(s).c = "tx"
          THEN ChunkWords(BodyTable[Head(s).v.id].words, Head(s).v.year)
          ELSE <<Head(s)>>)
         \o Expand(Tail(s))

\* str.lower(): the words of the string without their capitals, a header or
\* trailer phrase in its words ("author" and "the" are words of the texts);
\* every other token is the same text in either case
RECURSIVE lower(_)
lower(s) ==
    IF s = <<>> THEN <<>>
    ELSE (IF Head(s).c = "tx"
          THEN lower(ChunkWords(BodyTable[Head(s).v.id].words, Head(s).v.year))
          ELSE IF Head(s).c = "wd"
          THEN <<Wd(Head(s).v.w, FALSE)>>
          ELSE IF Head(s).c = "hd"
          THEN (CASE Head(s).v = 1 -> <<Wd(4001, FALSE)>>
                  [] Head(s).v = 2 -> <<Wd(4002, FALSE)>>
                  [] Head(s).v = 3 -> <<Wd(4003, FALSE), SP, Wd(4004, FALSE)>>
                  [] Head(s).v = 4 -> <<Wd(4005, FALSE), SP, Wd(4004, FALSE)>>
                  [] OTHER -> <<Wd(4006, FALSE)>>)
          ELSE IF Head(s).c = "tr"
          THEN (CASE Head(s).v = 1 -> <<Wd(4007, FALSE)>>
                  [] Head(s).v = 2 -> <<Wd(4008, FALSE)>>
                  [] Head(s).v = 3 -> <<Wd(201, FALSE), SP, Wd(4009, FALSE)>>
                  [] OTHER -> <<Wd(4010, FALSE), SP, Wd(3085, FALSE), SP,
                                Wd(4011, FALSE)>>)
          ELSE <<Head(s)>>)
         \o lower(Tail(s))

\* the maximal runs of non-whitespace tokens of e
Runs(e) ==
    {SubSeq(e, i, SetMin({j \in i..Len(e) : j = Len(e) \/ IsSpace(e[j + 1])})) :
        i \in {k \in 1..Len(e) : ~IsSpace(e[k]) /\ (k = 1 \/ IsSpace(e[k - 1]))}}

----------------------------------------------------------------------------
(* ExtractedReference and the Deduplicator. *)

ExtractedReference(full_text, title, confidence_score) ==
    [reference_number |-> <<>>, full_text |-> full_text, authors |-> <<>>,
     title |-> title, year |-> <<>>, venue |-> <<>>, volume |-> <<>>,
     issue |-> <<>>, pages |-> <<>>, doi |-> <<>>, url |-> <<>>, isbn |-> <<>>,
     reference_type |-> "", citation_style |-> "",
     confidence_score |-> confidence_score, extraction_notes |-> <<>>]

\* _calculate_string_similarity as the pair <<numerator, denominator>> of the
\* float it returns
\* len(intersection) / len(union) of the two word sets
Jaccard(words1, words2) ==
    IF words1 \cup words2 = {} THEN <<0, 1>>
    ELSE <<Cardinality(words1 \cap words2), Cardinality(words1 \cup words2)>>

\* the comparison of the two lowercased strings, set(str.split()) being the
\* runs of the string with its texts written out
LowerSimilarity(str1_lower, str2_lower) ==
    IF str1_lower = str2_lower THEN <<1, 1>>
    ELSE Jaccard(Runs(Expand(str1_lower)), Runs(Expand(str2_lower)))

_calculate_string_similarity(str1, str2) ==
    IF str1 = <<>> \/ str2 = <<>> THEN <<0, 1>>
    ELSE LowerSimilarity(lower(str1), lower(str2))

\* q > tenths/10 for the quotient q = <<numerator, denominator>>
Exceeds(q, tenths) == 10 * q[1] > tenths * q[2]

_are_references_similar(ref1, ref2) ==
    \/ /\ ref1.title # <<>>
       /\ ref2.title # <<>>
       /\ Exceeds(_calculate_string_similarity(ref1.title, ref2.title), 8)
    \/ Exceeds(_calculate_string_similarity(ref1.full_text, ref2.full_text), 9)

\* list.remove(x): without the first element equal to x
ListRemove(l, x) ==
    LET i == SetMin({j \in 1..Len(l) : l[j] = x})
    IN  SubSeq(l, 1, i - 1) \o SubSeq(l, i + 1, Len(l))

\* the inner loop of _deduplicate_references for the candidate ref, hits
\* being the places of the accepted entries similar to it
Collide(unique, ref, hits) ==
    IF hits = {} THEN Append(unique, ref)
    ELSE IF ref.confidence_score > unique[SetMin(hits)].confidence_score
         THEN Append(ListRemove(unique, unique[SetMin(hits)]), ref)
         ELSE unique

\* one pass of the outer loop of _deduplicate_references
DedupStep(unique, ref) ==
    Collide(unique, ref,
            {j \in 1..Len(unique) : _are_references_similar(ref, unique[j])})

RECURSIVE DedupFrom(_, _, _)
DedupFrom(unique, references, i) ==
    IF i > Len(references) THEN unique
    ELSE DedupFrom(DedupStep(unique, references[i]), references, i + 1)

_deduplicate_references(references) == DedupFrom(<<>>, references, 1)

----------------------------------------------------------------------------
(* The Reference Segmenter. *)

AllSpace(s, i, j) == \A m \in i..j : IsSpace(s[m])

\* the places of header h where r'(?i)\n\s*<header>\s*\n' matches: a newline
\* and whitespace before it, whitespace and a newline after it
HeaderHits(text, h) ==
    {i \in 1..Len(text) :
        /\ text[i] = Hd(h)
        /\ \E j \in 1..(i - 1) : text[j].c = "nl" /\ AllSpace(text, j + 1, i - 1)
        /\ \E m \in (i + 1)..Len(text) : text[m].c = "nl" /\ AllSpace(text, i + 1, m - 1)}

\* match.end() for the header at i: the greedy \s* runs to the last newline of
\* the whitespace after the header
HeaderEnd(text, i) ==
    SetMax({m \in (i + 1)..Len(text) : text[m].c = "nl" /\ AllSpace(text, i + 1, m - 1)})

\* the places of trailer e in rest where r'(?i)\n\s*<trailer>' matches
TrailerHits(rest, e) ==
    {i \in 1..Len(rest) :
        /\ rest[i] = Tr(e)
        /\ \E j \in 1..(i - 1) : rest[j].c = "nl" /\ AllSpace(rest, j + 1, i - 1)}

\* end_match.start() for the leftmost match of trailer e, as a count of
\* characters of rest before it
TrailerStart(rest, e) ==
    LET i == SetMin(TrailerHits(rest, e))
    IN  SetMin({j \in 1..(i - 1) : rest[j].c = "nl" /\ AllSpace(rest, j + 1, i - 1)}) - 1

_find_references_section(text) ==
    LET found == {h \in 1..5 : HeaderHits(text, h) # {}}
    IN  IF found = {} THEN None
        ELSE LET pattern == SetMin(found)
                 start_pos == HeaderEnd(text, SetMin(HeaderHits(text, pattern)))
                 rest == SubSeq(text, start_pos + 1, Len(text))
                 ends == {e \in 1..4 : TrailerHits(rest, e) # {}}
                 end_len == IF ends = {} THEN Len(rest)
                            ELSE TrailerStart(rest, SetMin(ends))
             IN  Some(strip(SubSeq(rest, 1, end_len)))

\* re.split(r'\[(\d+)\]', text): the text before the first marker, then for
\* each marker its number and the text up to the next marker
RECURSIVE re_split(_)
re_split(text) ==
    LET ms == {i \in 1..Len(text) : text[i].c = "mk"}
    IN  IF ms = {} THEN <<text>>
        ELSE LET i == SetMin(ms)
             IN  <<SubSeq(text, 1, i - 1), <<text[i]>>>>
                 \o re_split(SubSeq(text, i + 1, Len(text)))

\* Python's l[i]
Nth(l, i) == l[i + 1]

\* the loop of strategy 1, from index i (0-based) on
RECURSIVE BracketLoop_dropLast(_, _)
BracketLoop_dropLast(parts, i) ==
    IF i >= Len(parts) THEN <<>>
    ELSE (IF i + 2 < Len(parts) /\ strip(Nth(parts, i + 1)) # <<>>
          THEN <<Nth(parts, i) \o <<SP>> \o strip(Nth(parts, i + 1))>>
          ELSE <<>>)
         \o BracketLoop_dropLast(parts, i + 2)

RECURSIVE BracketLoop(_, _)
BracketLoop(parts, i) ==
    IF i >= Len(parts) THEN <<>>
    ELSE (IF i + 1 < Len(parts) /\ strip(Nth(parts, i + 1)) # <<>>
          THEN <<Nth(parts, i) \o <<SP>> \o strip(Nth(parts, i + 1))>>
          ELSE <<>>)
         \o BracketLoop(parts, i + 2)

\* text.split('\n')
RECURSIVE split_lines(_)
split_lines(text) ==
    LET ns == {i \in 1..Len(text) : text[i].c = "nl"}
    IN  IF ns = {} THEN <<text>>
        ELSE <<SubSeq(text, 1, SetMin(ns) - 1)>>
             \o split_lines(SubSeq(text, SetMin(ns) + 1, Len(text)))

\* a line starts a reference when it opens with "[n]" or with a text whose
\* first characters are "n." or an author ("Name, X")
_is_reference_start(line) ==
    \/ line[1].c = "mk"
    \/ line[1].c = "tx" /\ BodyTable[line[1].v.id].start

\* the loop of strategy 2 over lines[i..]
RECURSIVE LineLoop(_, _, _, _)
LineLoop(lines, i, references, current_ref) ==
    LET closed == IF current_ref # <<>> THEN Append(references, current_ref)
                  ELSE references
    IN  IF i > Len(lines) THEN closed
        ELSE LET line == strip(lines[i])
             IN  IF line = <<>> THEN LineLoop(lines, i + 1, closed, <<>>)
                 ELSE IF _is_reference_start(line)
                      THEN LineLoop(lines, i + 1, closed, line)
                 ELSE LineLoop(lines, i + 1, references,
                               IF current_ref # <<>>
                               THEN current_ref \o <<SP>> \o line ELSE line)

_split_into_references(text) ==
    IF \E i \in 1..Len(text) : text[i].c = "mk"
    THEN BracketLoop(re_split(text), 1)
    ELSE LineLoop(split_lines(text), 1, <<>>, <<>>)

----------------------------------------------------------------------------
(* The Style Matcher and the Metadata Enricher. *)

StyleOrder_reversed == <<"ieee", "chicago", "mla", "apa">>

\* the keys of citation_patterns in the order the dict is built
StyleOrder == <<"apa", "mla", "chicago", "ieee">>

\* <<n, j>> when the n-th pattern of the style has a match whose author group
\* begins in the text at j of s.  An ieee pattern starts at a marker that
\* whitespace alone separates from the text.  A pattern that is open at the
\* text ends behind it: [^.]+ runs to the next full stop wherever it is,
\* [^:]+ to the next colon.
PatternHits(style, s) ==
    LET dot(k) == s[k].c = "pn" \/ (s[k].c = "tx" /\ BodyTable[s[k].v.id].dot)
        colons(j) == {k \in (j + 1)..Len(s) :
                         s[k].c = "tx" /\ BodyTable[s[k].v.id].colon # "none"}
    IN  {p \in {1, 2} \X (1..Len(s)) :
            /\ s[p[2]].c = "tx"
            /\ \/ /\ <<style, p[1]>> \in BodyTable[s[p[2]].v.id].styles
                  /\ style = "ieee" =>
                         \E i \in 1..(p[2] - 1) :
                             s[i].c = "mk" /\ AllSpace(s, i + 1, p[2] - 1)
               \/ /\ <<style, p[1]>> \in BodyTable[s[p[2]].v.id].open
                  /\ IF style = "apa"
                     THEN \E k \in (p[2] + 1)..Len(s) : dot(k)
                     ELSE /\ colons(p[2]) # {}
                          /\ BodyTable[s[SetMin(colons(p[2]))].v.id].colon = "imprint"}

\* match.groups() as _create_reference_from_match reads it, None without a
\* match: the patterns are tried in list order, each on the whole of s, and
\* of a match groups 1 to 4 are read for apa and ieee, none for another style
GroupsOf(style, s, hits) ==
    LET at == CHOOSE p \in hits :
                  \A q \in hits : p[1] < q[1] \/ (p[1] = q[1] /\ p[2] <= q[2])
        written(g, year) == [k \in 1..Len(g) |->
                               IF g[k] = Wd(0, FALSE)
                               THEN Wd(10000 + int(year), FALSE) ELSE g[k]]
    IN  IF hits = {} THEN None
        ELSE IF style \notin {"apa", "ieee"} THEN Some(<<>>)
        ELSE Some([f \in {"author", "title", "venue"} |->
                      written(BodyTable[s[at[2]].v.id][style][f], s[at[2]].v.year)]
                  @@ (IF style = "apa"
                      THEN [year |-> s[at[2]].v.year]
                      ELSE [number |->
                               s[SetMax({i \in 1..(at[2] - 1) : s[i].c = "mk"})].v]))

\* lines 441-443 for one style
re_search(style, s) == GroupsOf(style, s, PatternHits(style, s))

\* group 1 of the leftmost match of a metadata pattern in ref_text ("" when it
\* does not match), hits being the texts the pattern matches in: what it
\* captures in the first of them and, where that capture ends the text, the
\* characters that continue it up to the next whitespace, be it inside a
\* header or trailer phrase
FirstCapture(ref_text, name, hits) ==
    LET Several(t) == t.c \in {"hd", "tr"} /\ t.v \in {3, 4}
        UntilSpace(rest, end) ==
            SubSeq(rest, 1, end)
            \o (IF end < Len(rest) /\ Several(rest[end + 1])
                THEN <<[c |-> "hw", v |-> rest[end + 1]]>> ELSE <<>>)
        Continued(rest) ==
            UntilSpace(rest, SetMin({j \in 0..Len(rest) :
                                       \/ j = Len(rest)
                                       \/ IsSpace(rest[j + 1])
                                       \/ Several(rest[j + 1])}))
    IN
    IF hits = {} THEN <<>>
    ELSE <<[c |-> "md",
            v |-> (CHOOSE m \in BodyTable[ref_text[SetMin(hits)].v.id].meta :
                       m[1] = name)[2]]>>
         \o (IF name \in BodyTable[ref_text[SetMin(hits)].v.id].tail
             THEN Continued(Expand(SubSeq(ref_text, SetMin(hits) + 1, Len(ref_text))))
             ELSE <<>>)

MetaField(ref_text, name) ==
    FirstCapture(ref_text, name,
                 {i \in 1..Len(ref_text) :
                     /\ ref_text[i].c = "tx"
                     /\ \E m \in BodyTable[ref_text[i].v.id].meta : m[1] = name})

\* the if/elif chain over the keyword families kw found in ref_lower
TypeOfKeywords(kw) ==
    CASE "journal" \in kw -> "journal"
      [] "conference" \in kw -> "conference"
      [] "book" \in kw -> "book"
      [] "website" \in kw -> "website"
      [] "thesis" \in kw -> "thesis"
      [] OTHER -> "unknown"

_determine_reference_type(ref_text) ==
    TypeOfKeywords(UNION {BodyTable[ref_text[i].v.id].kw :
                             i \in {j \in 1..Len(ref_text) : ref_text[j].c = "tx"}})

_extract_additional_metadata(reference, ref_text) ==
    [reference EXCEPT
        !.doi = MetaField(ref_text, "doi"),
        !.url = MetaField(ref_text, "url"),
        !.isbn = MetaField(ref_text, "isbn"),
        !.volume = MetaField(ref_text, "volume"),
        !.issue = MetaField(ref_text, "issue"),
        !.pages = MetaField(ref_text, "pages"),
        !.reference_type = _determine_reference_type(ref_text)]

\* lines 469-480: the fields set from the groups of the match
FillGroups(reference, style, groups) ==
    IF style = "apa"
    THEN [reference EXCEPT
             !.authors = <<strip(groups.author)>>,
             !.year = Some(int(groups.year)),
             !.title = strip(groups.title),
             !.venue = strip(groups.venue)]
    ELSE IF style = "ieee"
    THEN [reference EXCEPT
             !.reference_number = Some(groups.number),
             !.authors = <<strip(groups.author)>>,
             !.title = strip(groups.title),
             !.venue = strip(groups.venue)]
    ELSE reference

_create_reference_from_match(groups, ref_text, ref_number, style) ==
    _extract_additional_metadata(
        FillGroups([ExtractedReference(ref_text, <<>>, 80) EXCEPT
                       !.reference_number = Some(ref_number),
                       !.citation_style = style],
                   style, groups),
        ref_text)

\* the body of _parse_single_reference once the loop has ended, matched being
\* the places in StyleOrder of the styles with a pattern that re.search finds
ParseWith(ref_text, ref_number, matched) ==
    IF matched # {}
    THEN _create_reference_from_match(
             re_search(StyleOrder[SetMin(matched)], ref_text)[1], ref_text,
             ref_number, StyleOrder[SetMin(matched)])
    ELSE [ExtractedReference(ref_text, <<>>, 30) EXCEPT
             !.reference_number = Some(ref_number),
             !.extraction_notes = <<"Pattern matching failed, basic extraction only">>]

ParseStripped(ref_text, ref_number) ==
    ParseWith(ref_text, ref_number,
              {n \in 1..Len(StyleOrder) : re_search(StyleOrder[n], ref_text) # None})

_parse_single_reference(text, ref_number) == ParseStripped(strip(text), ref_number)

MinLength == 20

\* the loop of _parse_references_section over reference_lines[i..]
RECURSIVE SectionLoop_offByOne(_, _)
SectionLoop_offByOne(reference_lines, i) ==
    IF i > Len(reference_lines) THEN <<>>
    ELSE (IF StrLen(strip(reference_lines[i])) < MinLength - 1 THEN <<>>
          ELSE <<_parse_single_reference(reference_lines[i], i)>>)
         \o SectionLoop_offByOne(reference_lines, i + 1)

RECURSIVE SectionLoop(_, _)
SectionLoop(reference_lines, i) ==
    IF i > Len(reference_lines) THEN <<>>
    ELSE (IF StrLen(strip(reference_lines[i])) < MinLength THEN <<>>
          ELSE <<_parse_single_reference(reference_lines[i], i)>>)
         \o SectionLoop(reference_lines, i + 1)

_parse_references_section(references_text) ==
    SectionLoop(_split_into_references(references_text), 1)

\* the matches of r'\[(\d+)\]\s*([^[\n]+(?:\n[^[\n]+)*?)(?=\[\d+\]|\n\s*\n|$)'
\* under re.MULTILINE: group 2 of the match at the marker at i.  After the
\* marker and the whitespace the greedy [^[\n]+ runs to the end of the line or
\* to the next marker, where the lookahead holds ($ matches before every
\* newline), so the lazy continuation over further lines is never entered.
\* When a marker or the end follows the whitespace, \s* gives back as little
\* as [^[\n]+ needs: the last space of the whitespace is the group, and
\* without a space there is no match ("").
NumberedText(text, i) ==
    LET after == {j \in (i + 1)..Len(text) : ~IsSpace(text[j])}
        from == IF after = {} THEN Len(text) + 1 ELSE SetMin(after)
        stops == {j \in from..Len(text) : text[j].c \in {"nl", "mk"}}
        upto == IF stops = {} THEN Len(text) ELSE SetMin(stops) - 1
    IN  IF from <= upto THEN SubSeq(text, from, upto)
        ELSE IF \E j \in (i + 1)..(from - 1) : text[j].c = "sp" THEN <<SP>>
        ELSE <<>>

\* the loop of _find_numbered_references over the markers from position i on
RECURSIVE NumberedLoop(_, _)
NumberedLoop(text, i) ==
    IF i > Len(text) THEN <<>>
    ELSE IF text[i].c # "mk" THEN NumberedLoop(text, i + 1)
    ELSE LET ref_text == strip(NumberedText(text, i))
         IN  (IF StrLen(ref_text) > MinLength
              THEN <<_parse_single_reference(ref_text, text[i].v)>>
              ELSE <<>>)
             \o NumberedLoop(text, i + 1)

_find_numbered_references(text) == NumberedLoop(text, 1)

----------------------------------------------------------------------------
(* The Quality Scorer. *)

\* re.sub(r'\s+', ' ', text): every run of whitespace becomes one space
RECURSIVE collapse(_)
collapse(s) ==
    IF s = <<>> THEN <<>>
    ELSE IF IsSpace(Head(s))
         THEN IF Len(s) > 1 /\ IsSpace(s[2]) THEN collapse(Tail(s))
              ELSE <<SP>> \o collapse(Tail(s))
    ELSE <<Head(s)>> \o collapse(Tail(s))

_clean_reference_text(text) ==
    IF text = <<>> THEN <<>>
    ELSE StripClasses(collapse(text), {"sp", "pn"})

YearMin == 1900
YearMax == 2030

\* Python's truth value of an Optional[int]
Truthy(opt) == opt # None /\ opt[1] # 0

_calculate_reference_completeness_unclamped(ref) ==
    LET optional_fields == <<ref.doi, ref.url, ref.volume, ref.issue, ref.pages>>
        filled_optional == Cardinality({i \in 1..5 : optional_fields[i] # <<>>})
    IN  (IF ref.authors # <<>> THEN 30 ELSE 0)
        + (IF ref.title # <<>> THEN 30 ELSE 0)
        + (IF Truthy(ref.year) THEN 20 ELSE 0)
        + (IF ref.venue # <<>> THEN 20 ELSE 0)
        + (filled_optional * 20) \div 5

_calculate_reference_completeness(ref) ==
    LET optional_fields == <<ref.doi, ref.url, ref.volume, ref.issue, ref.pages>>
        filled_optional == Cardinality({i \in 1..5 : optional_fields[i] # <<>>})
        score == (IF ref.authors # <<>> THEN 30 ELSE 0)
                 + (IF ref.title # <<>> THEN 30 ELSE 0)
                 + (IF Truthy(ref.year) THEN 20 ELSE 0)
                 + (IF ref.venue # <<>> THEN 20 ELSE 0)
                 + (filled_optional * 20) \div 5
    IN  IF score > 100 THEN 100 ELSE score

\* the body of the loop of _enhance_reference_quality
EnhanceOne(ref) ==
    LET cleaned == [ref EXCEPT
                       !.full_text = _clean_reference_text(ref.full_text),
                       !.title = _clean_reference_text(ref.title),
                       !.venue = _clean_reference_text(ref.venue)]
        invalid == Truthy(ref.year) /\ (ref.year[1] < YearMin \/ ref.year[1] > YearMax)
        checked == IF invalid
                   THEN [cleaned EXCEPT
                            !.year = None,
                            !.extraction_notes = Append(@, "Invalid year detected. ")]
                   ELSE cleaned
    IN  [checked EXCEPT !.confidence_score = _calculate_reference_completeness(checked)]

_enhance_reference_quality(references) ==
    [i \in 1..Len(references) |-> EnhanceOne(references[i])]

----------------------------------------------------------------------------
(* extract_references_from_text, with the values of its locals. *)

\* lines 304-307, with the values the locals had before them
Returned(section, reference_lines, found) ==
    [references_section |-> section,
     reference_lines |-> reference_lines,
     candidates |-> found,
     references |-> _enhance_reference_quality(_deduplicate_references(found))]

\* lines 296-301: region is the truth value of references_section
Passes(t, section, region) ==
    Returned(section,
             IF region THEN _split_into_references(section[1]) ELSE <<>>,
             (IF region THEN _parse_references_section(section[1]) ELSE <<>>)
             \o _find_numbered_references(t))

AfterFind(t, section) == Passes(t, section, section # None /\ section[1] # <<>>)

extract_references_from_text(t) == AfterFind(t, _find_references_section(t))

\* the lines a document is made of: blank; a reference text alone; a marker
\* and a reference text; a marker alone; two markers on one line; lines with
\* a closing full stop and surrounding spaces
Unmarked ==
    {Body(1, <<2, 0, 3, 0>>), Body(3, <<>>), Body(4, <<>>), Body(6, <<>>)}

\* text 1 with the years 0000, 1899, 1900, 2030 and 2031
MarkedFirst ==
    {Body(1, y) : y \in {<<0, 0, 0, 0>>, <<1, 8, 9, 9>>, <<1, 9, 0, 0>>,
                         <<2, 0, 3, 0>>, <<2, 0, 3, 1>>}}
    \cup {Body(2, <<>>), Body(6, <<>>), Body(7, <<2, 0, 2, 3>>)}

Lines ==
    {<<>>, <<Mk(1)>>}
    \cup {<<Tx(b)>> : b \in Unmarked}
    \cup {<<Mk(1), SP, Tx(b)>> : b \in MarkedFirst}
    \cup {<<Mk(k), SP, Tx(Body(1, <<2, 0, 3, 0>>))>> : k \in 2..MaxMarker}
    \cup {<<Mk(1), SP, Tx(Body(5, <<>>)), SP, Mk(MaxMarker), SP, Tx(Body(4, <<>>))>>,
          <<Mk(1), SP, Tx(Body(1, <<2, 0, 3, 0>>)), PN>>,
          <<SP, Tx(Body(1, <<2, 0, 3, 0>>)), PN, SP>>}

\* "\n".join(lines)
RECURSIVE JoinLines(_)
JoinLines(ls) ==
    IF ls = <<>> THEN <<>>
    ELSE IF Len(ls) = 1 THEN ls[1]
    ELSE ls[1] \o <<NL>> \o JoinLines(Tail(ls))

\* a document opens with no header line, with a header as its first line, or
\* with a blank line and a header line
Openings == {<<>>, <<<<Hd(1)>>>>, <<<<>>, <<Hd(1)>>>>}

Documents ==
    {JoinLines(o \o ls) : o \in Openings,
                          ls \in UNION {[1..n -> Lines] : n \in 0..MaxLines}}

Init ==
    /\ pc = "start"
    /\ raw_text \in Documents
    /\ references_section = None
    /\ section_lines = <<>>
    /\ candidates = <<>>
    /\ returned = <<>>
    /\ refs = <<>>
    /\ unique_references = <<>>
    /\ unique_twice = <<>>
    /\ NoExtraction
    /\ NoAgent

\* the call has returned r
Return(r) ==
    /\ references_section' = r.references_section
    /\ section_lines' = r.reference_lines
    /\ candidates' = r.candidates
    /\ returned' = r.references
    /\ UNCHANGED <<pdf_vars, agent_vars>>

ExtractReferences ==
    /\ pc = "start"
    /\ Return(extract_references_from_text(raw_text))
    /\ pc' = "done"
    /\ UNCHANGED <<raw_text, dedup_vars>>

Next == ExtractReferences

Spec == Init /\ [][Next]_vars

----------------------------------------------------------------------------
(* Inputs of the Deduplicator specification. *)

RECURSIVE TitleFrom(_, _, _)
TitleFrom(S, w, up) ==
    IF w > VocabSize THEN <<>>
    ELSE IF w \notin S THEN TitleFrom(S, w + 1, up)
    ELSE LET rest == TitleFrom(S, w + 1, up)
         IN  IF rest = <<>> THEN <<Wd(w, up)>> ELSE <<Wd(w, up), SP>> \o rest

\* the words every title shares: all of the vocabulary but the last two
Core == 1..(VocabSize - 2)

Titles ==
    {<<>>}
    \cup {TitleFrom(Core \cup X, 1, FALSE) : X \in SUBSET ((1..VocabSize) \ Core)}
    \cup {TitleFrom(Core, 1, TRUE) \o <<PN>>}

Confidences == {30, 80}

\* the references handed to the Deduplicator: every title at both confidences
\* over one full text; a full text one word away from it ("[1] " in front)
\* and an unrelated full text, each with the titles that separate the title
\* rule from the full-text rule
DedupInputs ==
    {ExtractedReference(<<Tx(Body(4, <<>>))>>, t, c) : t \in Titles, c \in Confidences}
    \cup {ExtractedReference(<<Mk(1), SP, Tx(Body(4, <<>>))>>, <<>>, SetMin(Confidences))}
    \cup {ExtractedReference(<<Tx(Body(5, <<>>))>>, t, SetMin(Confidences)) :
              t \in {<<>>, TitleFrom(1..(VocabSize - 1), 1, FALSE),
                     TitleFrom(Core, 1, TRUE) \o <<PN>>}}

InitDedup ==
    /\ pc = "start"
    /\ refs \in UNION {[1..n -> DedupInputs] : n \in 0..MaxRefs}
    /\ unique_references = <<>>
    /\ unique_twice = <<>>
    /\ raw_text = <<>>
    /\ references_section = None
    /\ section_lines = <<>>
    /\ candidates = <<>>
    /\ returned = <<>>
    /\ NoExtraction
    /\ NoAgent

Deduplicate ==
    /\ pc = "start"
    /\ unique_references' = _deduplicate_references(refs)
    /\ pc' = "deduped"
    /\ UNCHANGED <<refs, unique_twice, text_vars>>
    /\ UNCHANGED <<pdf_vars, agent_vars>>

DeduplicateAgain ==
    /\ pc = "deduped"
    /\ unique_twice' = _deduplicate_references(unique_references)
    /\ pc' = "twice"
    /\ UNCHANGED <<refs, unique_references, text_vars>>
    /\ UNCHANGED <<pdf_vars, agent_vars>>

NextDedup == Deduplicate \/ DeduplicateAgain

SpecDedup == InitDedup /\ [][NextDedup]_vars

----------------------------------------------------------------------------
(* _find_references_section on documents of headers, trailing-section      *)
(* headers and plain lines.                                                *)

MaxSectionLines == 4

SectionDocuments ==
    LET SectionLines == {<<>>, <<Tx(Body(4, <<>>))>>, <<SP, Hd(1), SP>>}
                        \cup {<<Hd(h)>> : h \in 1..5}
                        \cup {<<Tr(e)>> : e \in 1..4}
    IN  {JoinLines(ls) :
            ls \in UNION {[1..n -> SectionLines] : n \in 0..MaxSectionLines}}

InitSection ==
    /\ pc = "start"
    /\ raw_text \in SectionDocuments
    /\ references_section = None
    /\ section_lines = <<>>
    /\ candidates = <<>>
    /\ returned = <<>>
    /\ refs = <<>>
    /\ unique_references = <<>>
    /\ unique_twice = <<>>
    /\ NoExtraction
    /\ NoAgent

FindSection ==
    /\ pc = "start"
    /\ references_section' = _find_references_section(raw_text)
    /\ pc' = "found"
    /\ UNCHANGED <<raw_text, section_lines, candidates, returned, dedup_vars>>
    /\ UNCHANGED <<pdf_vars, agent_vars>>

NextSection == FindSection

SpecSection == InitSection /\ [][NextSection]_vars

----------------------------------------------------------------------------
(* extract_references_from_text on documents whose lines are 15 to 21      *)
(* characters long, with and without a marker in front.                    *)

LengthDocuments ==
    LET LengthLines == {<<>>}
                       \cup {<<Tx(Body(id, <<>>))>> : id \in 8..12}
                       \cup {<<Mk(1), SP, Tx(Body(id, <<>>))>> : id \in 8..12}
    IN  {JoinLines(o \o ls) :
            o \in Openings,
            ls \in UNION {[1..n -> LengthLines] : n \in 0..MaxLines}}

InitLength ==
    /\ pc = "start"
    /\ raw_text \in LengthDocuments
    /\ references_section = None
    /\ section_lines = <<>>
    /\ candidates = <<>>
    /\ returned = <<>>
    /\ refs = <<>>
    /\ unique_references = <<>>
    /\ unique_twice = <<>>
    /\ NoExtraction
    /\ NoAgent

SpecLength == InitLength /\ [][Next]_vars

----------------------------------------------------------------------------
(* extract_references_from_text on documents with a text for each style,   *)
(* texts that patterns of two styles match, and a text no pattern matches. *)

StyleBodies ==
    {Body(1, <<2, 0, 3, 0>>), Body(2, <<>>), Body(3, <<>>), Body(13, <<>>),
     Body(14, <<2, 0, 2, 0>>), Body(15, <<>>), Body(16, <<>>)}

StyleDocuments ==
    LET StyleLines == {<<>>}
                      \cup {<<Tx(b)>> : b \in StyleBodies}
                      \cup {<<Mk(1), SP, Tx(b)>> : b \in StyleBodies}
    IN  {JoinLines(o \o ls) :
            o \in Openings,
            ls \in UNION {[1..n -> StyleLines] : n \in 0..MaxLines}}

InitStyle ==
    /\ pc = "start"
    /\ raw_text \in StyleDocuments
    /\ references_section = None
    /\ section_lines = <<>>
    /\ candidates = <<>>
    /\ returned = <<>>
    /\ refs = <<>>
    /\ unique_references = <<>>
    /\ unique_twice = <<>>
    /\ NoExtraction
    /\ NoAgent

SpecStyle == InitStyle /\ [][Next]_vars

----------------------------------------------------------------------------
(* PDFTextExtractor.  A text is kept by the three counts its quality is    *)
(* computed from: characters, whitespace-separated words, and how many of  *)
(* the fifteen academic indicators occur in it.  A quality score is a      *)
(* float, computed and compared as the interpreter does (see below).  At   *)
(* pdf_path each library either raises (None) or delivers a text (Some).   *)
(* A dictionary is a record whose entries are Optional, an absent key      *)
(* being None; the key "pages" is left out.                                *)

extraction_methods == <<"pdfplumber", "pypdf2", "ocr">>

Text(char_count, word_count, indicator_count) ==
    [char_count |-> char_count,
     word_count |-> word_count,
     indicator_count |-> indicator_count]

EmptyText == Text(0, 0, 0)

\* "", "references", a paragraph, a paper long enough for the score 1.0, and
\* "z z" and "zzzzzzzz", whose scores differ in the last bit
Pdfs ==
    LET Texts == {EmptyText, Text(10, 1, 1), Text(120, 20, 3),
                  Text(12000, 2400, 15), Text(3, 2, 0), Text(8, 1, 0)}
    IN  [{"pdfplumber", "pypdf2", "ocr"} -> {None} \cup {Some(t) : t \in Texts}]

\* dict.get(key, default)
Get(entry, default) == IF entry = None THEN default ELSE entry[1]

----------------------------------------------------------------------------
(* Floats.  A float that is not negative is the double m * 2^e: m has 53   *)
(* bits and is written as five limbs of 13 bits, the lowest first, so that *)
(* m[5] = 1; 0.0 has m = 0 and e = 0.  A natural number of any size is a   *)
(* sequence of such limbs.  Every operation rounds its exact result to the *)
(* nearest double, to the even one of two that are equally near.           *)

\* 0.0
Zero == [m |-> <<0, 0, 0, 0, 0>>, e |-> 0]

\* the limbs of the number v[1] + v[2] * 2^13 + ... + c, each below 2^13
RECURSIVE Carry(_, _)
Carry(v, c) ==
    IF v = <<>>
    THEN IF c = 0 THEN <<>> ELSE <<c % 8192>> \o Carry(v, c \div 8192)
    ELSE <<(v[1] + c) % 8192>> \o Carry(Tail(v), (v[1] + c) \div 8192)

\* the number of bits of v, a natural number above 0
Bits(v) ==
    LET top == SetMax({i \in 1..Len(v) : v[i] # 0})
    IN  13 * (top - 1) + (CHOOSE k \in 1..13 : 2^(k - 1) <= v[top] /\ v[top] < 2^k)

\* the float of the 53 leading bits of v * 2^e, the bits after them dropped
Truncate(v, e) ==
    LET s == Bits(v) - 53
        at(i) == IF i <= Len(v) THEN v[i] ELSE 0
    IN  [m |-> [i \in 1..5 |->
                  at(s \div 13 + i) \div 2^(s % 13)
                  + (at(s \div 13 + i + 1) % 2^(s % 13)) * 2^(13 - (s % 13))],
         e |-> e + s]

\* the float nearest to n * 2^e, n a natural number above 0: with s bits to
\* drop from n * 2^65, one less than 2^(s-1) is added and one more when the
\* last bit to keep is 1, so that a half goes to the even neighbour
Round(n, e) ==
    LET s == Bits(n) + 12
    IN  Truncate(Carry([i \in 1..(Len(n) + 5) |->
                           (IF i > 5 THEN n[i - 5] ELSE 0)
                           + (IF 13 * i <= s - 1 THEN 8191
                              ELSE IF 13 * (i - 1) < s - 1
                              THEN 2^(s - 1 - 13 * (i - 1)) - 1 ELSE 0)],
                       IF s < 65 THEN 0
                       ELSE (n[s \div 13 - 4] \div 2^(s % 13)) % 2),
                 e - 65)

\* the limbs of (r * 2^(13 * Len(v)) + v) \div b after the remainder
RECURSIVE Quotient(_, _, _)
Quotient(v, b, r) ==
    IF v = <<>>
    THEN <<r>>
    ELSE Quotient(SubSeq(v, 1, Len(v) - 1), b, (r * 8192 + v[Len(v)]) % b)
         \o <<(r * 8192 + v[Len(v)]) \div b>>

\* a / b for two int, and the literal written a/b in decimal digits: twice
\* the quotient of a * 2^78 by b, made odd when the division leaves a rest
truediv(a, b) ==
    IF a = 0
    THEN Zero
    ELSE LET q == Quotient(<<0, 0, 0, 0, 0, 0>> \o Carry(<<a>>, 0), b, 0)
         IN  Round(Carry([i \in 1..(Len(q) - 1) |->
                             2 * q[i + 1] + (IF i = 1 /\ q[1] # 0 THEN 1 ELSE 0)], 0),
                   -79)

\* x * y
mul(x, y) ==
    IF x.m[5] = 0 \/ y.m[5] = 0
    THEN Zero
    ELSE LET at(j) == IF j \in 1..5 THEN y.m[j] ELSE 0
         IN  Round(Carry([k \in 1..10 |->
                             x.m[1] * at(k) + x.m[2] * at(k - 1) + x.m[3] * at(k - 2)
                             + x.m[4] * at(k - 3) + x.m[5] * at(k - 4)], 0),
                   x.e + y.e)

\* x + y
add(x, y) ==
    IF x.m[5] = 0 THEN y
    ELSE IF y.m[5] = 0 THEN x
    ELSE LET hi == IF x.e >= y.e THEN x ELSE y
             lo == IF x.e >= y.e THEN y ELSE x
             d == hi.e - lo.e
         IN  Round(Carry([k \in 1..(d \div 13 + 5) |->
                             (IF k > d \div 13
                              THEN hi.m[k - d \div 13] * 2^(d % 13) ELSE 0)
                             + (IF k <= 5 THEN lo.m[k] ELSE 0)], 0),
                   lo.e)

\* x > y
gt(x, y) ==
    /\ x.m[5] # 0
    /\ \/ y.m[5] = 0
       \/ x.e > y.e
       \/ /\ x.e = y.e
          /\ \E i \in 1..5 : /\ x.m[i] > y.m[i]
                               /\ \A j \in (i + 1)..5 : x.m[j] = y.m[j]

----------------------------------------------------------------------------

\* min(x, y) of two floats
min(x, y) == IF gt(x, y) THEN y ELSE x

\* lines 213-237
_calculate_text_quality(text) ==
    IF text.char_count = 0
    THEN Zero
    ELSE min(truediv(1, 1),
             add(add(mul(truediv(text.char_count, 10000), truediv(3, 10)),
                     mul(truediv(text.word_count, 2000), truediv(3, 10))),
                 mul(truediv(text.indicator_count, 15), truediv(2, 5))))

Result(text, method, success, quality_score, error) ==
    [text |-> text,
     method |-> method,
     success |-> success,
     quality_score |-> quality_score,
     error |-> error]

_extract_with_pdfplumber(text) ==
    Result(text, Some("pdfplumber"), Some(TRUE),
           Some(_calculate_text_quality(text)), None)

_extract_with_pypdf2(text) ==
    Result(text, Some("pypdf2"), Some(TRUE),
           Some(_calculate_text_quality(text)), None)

\* its own except clause returns the failure instead of raising it; lines
\* 181-198 leave out a page whose text is whitespace alone
_extract_with_ocr(read) ==
    IF read = None
    THEN Result(EmptyText, Some("ocr"), Some(FALSE), Some(Zero), Some("error"))
    ELSE LET full_text == IF read[1].word_count = 0 THEN EmptyText ELSE read[1]
         IN  Result(full_text, Some("ocr"), Some(TRUE),
                    Some(mul(_calculate_text_quality(full_text), truediv(4, 5))), None)

\* the body of the loop of extract_text_from_pdf for one method; lines
\* 97-104 record the failure when the call raised
TryMethod(method, pdf) ==
    IF method = "ocr"
    THEN _extract_with_ocr(pdf[method])
    ELSE IF pdf[method] = None
         THEN Result(EmptyText, None, Some(FALSE), None, Some("error"))
         ELSE IF method = "pdfplumber"
              THEN _extract_with_pdfplumber(pdf[method][1])
              ELSE _extract_with_pypdf2(pdf[method][1])

\* line 244-245
Better(result, best) ==
    IF /\ Get(result.success, FALSE)
       /\ gt(Get(result.quality_score, Zero), best.quality_score[1])
    THEN result
    ELSE best

RECURSIVE SelectFrom(_, _, _)
SelectFrom(results, n, best) ==
    IF n > Len(results)
    THEN best
    ELSE SelectFrom(results, n + 1, Better(results[n].result, best))

_select_best_extraction(results) ==
    SelectFrom(results, 1, Result(EmptyText, Some("none"), None,
                         Some(Zero), None))

\* lines 109-115
Extraction(best, results) ==
    [text |-> best.text,
     method_used |-> Get(best.method, "unknown"),
     extraction_quality |-> Get(best.quality_score, Zero),
     all_results |-> results]

\* the for statement of line 84 breaks on a successful result
LoopDone_stopOnSuccess(invoked, results) ==
    \/ Len(invoked) = Len(extraction_methods)
    \/ \E n \in 1..Len(results) : Get(results[n].result.success, FALSE)

\* the for statement of line 84 is exhausted
LoopDone(invoked, results) == Len(invoked) = Len(extraction_methods)

InitExtract ==
    /\ pc = "start"
    /\ PDF_LIBRARIES_AVAILABLE \in BOOLEAN
    /\ pdf_path \in Pdfs
    /\ calls = <<>>
    /\ extraction_results = <<>>
    /\ best_result = None
    /\ extraction = None
    /\ raw_text = <<>>
    /\ references_section = None
    /\ section_lines = <<>>
    /\ candidates = <<>>
    /\ returned = <<>>
    /\ refs = <<>>
    /\ unique_references = <<>>
    /\ unique_twice = <<>>
    /\ NoAgent

\* lines 78-79
RaiseImportError ==
    /\ pc = "start"
    /\ ~PDF_LIBRARIES_AVAILABLE
    /\ pc' = "raised"
    /\ UNCHANGED <<dedup_vars, text_vars, agent_vars, pdf_vars>>

\* line 81
EnterLoop ==
    /\ pc = "start"
    /\ PDF_LIBRARIES_AVAILABLE
    /\ extraction_results' = <<>>
    /\ pc' = "loop"
    /\ UNCHANGED <<dedup_vars, text_vars, agent_vars,
                   PDF_LIBRARIES_AVAILABLE, pdf_path,
                   calls, best_result, extraction>>

Invoke(method) ==
    /\ calls' = Append(calls, method)
    /\ extraction_results' =
           Append(extraction_results,
                  [method |-> method, result |-> TryMethod(method, pdf_path)])

\* lines 84-104, one iteration
TryNextMethod ==
    /\ pc = "loop"
    /\ ~LoopDone(calls, extraction_results)
    /\ Invoke(extraction_methods[Len(calls) + 1])
    /\ UNCHANGED <<pc, dedup_vars, text_vars, agent_vars,
                   PDF_LIBRARIES_AVAILABLE, pdf_path,
                   best_result, extraction>>

Select(best) ==
    /\ best_result' = Some(best)
    /\ extraction' = Some(Extraction(best, extraction_results))

\* lines 107-115
SelectAndReturn ==
    /\ pc = "loop"
    /\ LoopDone(calls, extraction_results)
    /\ Select(_select_best_extraction(extraction_results))
    /\ pc' = "returned"
    /\ UNCHANGED <<dedup_vars, text_vars, agent_vars,
                   PDF_LIBRARIES_AVAILABLE, pdf_path,
                   calls, extraction_results>>

NextExtract == RaiseImportError \/ EnterLoop \/ TryNextMethod \/ SelectAndReturn

SpecExtract == InitExtract /\ [][NextExtract]_vars

----------------------------------------------------------------------------
(* extract_references_from_text on documents with lines made of full stops *)
(* alone, 19 to 21 of them, and with such a run after a marker.            *)

Dots(n) == [i \in 1..n |-> PN]

PunctDocuments ==
    {JoinLines(o \o ls) :
        o \in Openings,
        ls \in UNION {[1..n -> {<<>>, <<Tx(Body(4, <<>>))>>}
                                 \cup {Dots(n2) : n2 \in {19, 20, 21}}
                                 \cup {<<Mk(1), SP>> \o Dots(n2) : n2 \in {16, 20, 21}}]
                       : n \in 0..MaxLines}}

InitPunct ==
    /\ pc = "start"
    /\ raw_text \in PunctDocuments
    /\ references_section = None
    /\ section_lines = <<>>
    /\ candidates = <<>>
    /\ returned = <<>>
    /\ refs = <<>>
    /\ unique_references = <<>>
    /\ unique_twice = <<>>
    /\ NoExtraction
    /\ NoAgent

SpecPunct == InitPunct /\ [][Next]_vars

----------------------------------------------------------------------------
(* PDFReferenceExtractionAgent with its default configuration.  A PDF file *)
(* has one page; it is kept by whether it exists, whether it is larger     *)
(* than max_file_size_mb, and what each library reads in it.  A text the   *)
(* parser is run on carries its tokens in the entry content.  The average  *)
(* confidence is the pair <<numerator, denominator>> of a fraction of      *)
(* hundredths in lowest terms.  Times, sizes and the batch summary file    *)
(* are left out, and writing a file succeeds unless its library is missing.*)
(* extraction_notes is the sequence of the strings appended to it, the     *)
(* value an f-string formats being a string of its own.                    *)

\* the fraction n/d in lowest terms
Frac(n, d) ==
    LET RECURSIVE GCD(_, _)
        GCD(a, b) == IF b = 0 THEN a ELSE GCD(b, a % b)
    IN  IF n = 0 THEN <<0, 1>> ELSE <<n \div GCD(n, d), d \div GCD(n, d)>>

\* word_count is len(text.split()): the words are counted where every text
\* and every header or trailer phrase is written out in its words, as lower
\* writes them (it changes no whitespace)
PageText(content, indicator_count) ==
    [char_count |-> StrLen(content),
     word_count |->
         Cardinality({k \in 1..Len(lower(content)) :
                         /\ ~IsSpace(lower(content)[k])
                         /\ (k = 1 \/ IsSpace(lower(content)[k - 1]))}),
     indicator_count |-> indicator_count,
     content |-> content]

\* "  \n ": whitespace alone
BlankPage == PageText(<<SP, SP, NL, SP>>, 0)

\* text 4 alone: no header, no marker
PlainPage == PageText(<<Tx(Body(4, <<>>))>>, 0)

\* a references section of one unnumbered reference ("references", "journal")
ShortPage ==
    PageText(<<NL, Hd(1), NL, Tx(Body(1, <<2, 0, 3, 0>>))>>, 2)

\* a references section of two numbered references, the second of which no
\* pattern matches ("references", "journal", "doi:", "https://")
ListPage ==
    PageText(<<NL, Hd(1), NL, Mk(1), SP, Tx(Body(1, <<2, 0, 3, 0>>)),
               NL, Mk(2), SP, Tx(Body(16, <<>>))>>, 4)

Pdf(stem, exists, too_large, pdfplumber, pypdf2, ocr) ==
    [stem |-> stem, exists |-> exists, too_large |-> too_large,
     reads |-> [pdfplumber |-> pdfplumber, pypdf2 |-> pypdf2, ocr |-> ocr]]

AgentPdfs ==
    {Pdf("missing", FALSE, FALSE, None, None, None),
     Pdf("huge", TRUE, TRUE, Some(ListPage), None, None),
     Pdf("broken", TRUE, FALSE, None, None, None),
     Pdf("scanned", TRUE, FALSE, Some(EmptyText), Some(EmptyText), None),
     Pdf("blank", TRUE, FALSE, Some(BlankPage), Some(BlankPage), Some(BlankPage)),
     Pdf("plain", TRUE, FALSE, Some(PlainPage), None, None),
     Pdf("list", TRUE, FALSE, None, Some(ListPage), None),
     Pdf("mixed", TRUE, FALSE, Some(ShortPage), None, Some(ListPage))}

\* extract_references_from_text on the pages of the model
ParserOn ==
    [page \in {BlankPage, PlainPage, ShortPage, ListPage} |->
        extract_references_from_text(page.content)]

\* extraction_results when the loop of extract_text_from_pdf has ended
AllResults(reads) ==
    [n \in 1..Len(extraction_methods) |->
        [method |-> extraction_methods[n],
         result |-> TryMethod(extraction_methods[n], reads)]]

\* lines 107-115: what extract_text_from_pdf returns when the libraries are
\* available and its loop has recorded the results
extract_text_from_pdf(results) ==
    Extraction(_select_best_extraction(results), results)

\* extract_text_from_pdf on the files of the model
ExtractorOn == [pdf \in AgentPdfs |-> extract_text_from_pdf(AllResults(pdf.reads))]

\* _get_default_config
output_formats == <<"json", "csv", "xlsx", "txt", "md">>

min_confidence_threshold == 30

\* lines 1164-1167, inverted
Filter_below(references) ==
    SelectSeq(references, LAMBDA ref : ref.confidence_score <= min_confidence_threshold)

\* lines 1164-1167
Filter(references) ==
    SelectSeq(references, LAMBDA ref : ref.confidence_score >= min_confidence_threshold)

\* store_references: for each format the path of the file or an error text
\* (saved FALSE), and the files created with what was written in them;
\* _save_as_csv creates no file for an empty list.  A format that is none of
\* the five is passed over, and output_files is a dict: a format named twice
\* has one key, at the place of its first naming.
store_references(references, formats) ==
    LET keys == {n \in 1..Len(formats) :
                    /\ formats[n] \in {"json", "csv", "txt", "xlsx", "md"}
                    /\ \A m \in 1..(n - 1) : formats[m] # formats[n]}
    IN  [output_files |->
            [k \in 1..Cardinality(keys) |->
                [format |-> formats[CHOOSE n \in keys :
                                       Cardinality({m \in keys : m <= n}) = k],
                 saved |-> formats[CHOOSE n \in keys :
                                      Cardinality({m \in keys : m <= n}) = k] # "xlsx"
                           \/ SPREADSHEET_LIBRARIES_AVAILABLE]],
         written |->
            [f \in {formats[n] : n \in
                       {m \in keys :
                           /\ formats[m] # "xlsx" \/ SPREADSHEET_LIBRARIES_AVAILABLE
                           /\ formats[m] # "csv" \/ references # <<>>}}
                |-> references]]

RECURSIVE SumConfidence(_)
SumConfidence(references) ==
    IF references = <<>> THEN 0
    ELSE Head(references).confidence_score + SumConfidence(Tail(references))

\* lines 1184-1197: the running average of lines 1195-1197 is
\* (cur * (total_processed - 1) + new) / total_processed
UpdateStatistics(stats, filtered) ==
    [stats EXCEPT
        !.total_pdfs_processed = @ + 1,
        !.total_references_extracted = @ + Len(filtered),
        !.average_confidence_score =
            IF filtered = <<>> THEN @
            ELSE LET new == Frac(SumConfidence(filtered), Len(filtered))
                     total_processed == stats.total_pdfs_processed + 1
                 IN  Frac(@[1] * (total_processed - 1) * new[2] + new[1] * @[2],
                          @[2] * new[2] * total_processed)]

\* one call of extract_references_from_pdf: its argument, the locals
\* text_extraction_result["text"] and references, what it returned, the files
\* it created and the statistics after it
Call(pdf, text, references, result, written, stats) ==
    [pdf |-> pdf, text |-> text, references |-> references, result |-> result,
     written |-> written, stats |-> stats]

\* lines 1225-1240, which also count the file as processed
Failed_counted(pdf, text, error, stats) ==
    Call(pdf, text, None,
         [status |-> "error", pdf_path |-> pdf.stem, error |-> Some(error),
          text_extraction |-> None, reference_extraction |-> None,
          references |-> None, output_files |-> None],
         <<>>,
         [stats EXCEPT
             !.total_pdfs_processed = @ + 1,
             !.processing_errors =
                 Append(@, [pdf_path |-> pdf.stem, error |-> error])])

\* lines 1225-1240
Failed(pdf, text, error, stats) ==
    Call(pdf, text, None,
         [status |-> "error", pdf_path |-> pdf.stem, error |-> Some(error),
          text_extraction |-> None, reference_extraction |-> None,
          references |-> None, output_files |-> None],
         <<>>,
         [stats EXCEPT
             !.processing_errors =
                 Append(@, [pdf_path |-> pdf.stem, error |-> error])])

\* lines 1176-1223
Stored(pdf, found, references, filtered, stored, stats) ==
    Call(pdf, Some(found.text), Some(references),
         [status |-> "success", pdf_path |-> pdf.stem, error |-> None,
          text_extraction |->
              Some([method_used |-> found.method_used,
                    quality_score |-> found.extraction_quality,
                    text_length |-> found.text.char_count]),
          reference_extraction |->
              Some([total_found |-> Len(references),
                    filtered_count |-> Len(filtered),
                    average_confidence |->
                        IF filtered = <<>> THEN <<0, 1>>
                        ELSE Frac(SumConfidence(filtered), Len(filtered)),
                    confidence_threshold |-> min_confidence_threshold]),
          references |-> Some(filtered),
          output_files |-> Some(stored.output_files)],
         stored.written,
         UpdateStatistics(stats, filtered))

\* lines 1163-1180
Parsed(pdf, found, references, stats) ==
    Stored(pdf, found, references, Filter(references),
           store_references(Filter(references), output_formats), stats)

\* lines 1151-1161, with the text stripped before the test of line 1152
Extracted_stripped(pdf, found, stats) ==
    IF found.text.word_count = 0
    THEN Failed(pdf, Some(found.text), "No text could be extracted from the PDF",
                stats)
    ELSE Parsed(pdf, found, ParserOn[found.text].references, stats)

\* lines 1151-1161
Extracted(pdf, found, stats) ==
    IF found.text.char_count = 0
    THEN Failed(pdf, Some(found.text), "No text could be extracted from the PDF",
                stats)
    ELSE Parsed(pdf, found, ParserOn[found.text].references, stats)

extract_references_from_pdf(pdf, stats) ==
    IF ~pdf.exists THEN Failed(pdf, None, "PDF file not found", stats)
    ELSE IF pdf.too_large THEN Failed(pdf, None, "File too large", stats)
    ELSE IF ~PDF_LIBRARIES_AVAILABLE
         THEN Failed(pdf, None, "PDF processing libraries not available", stats)
    ELSE Extracted(pdf, ExtractorOn[pdf], stats)

\* the loop of batch_extract_references over pdf_paths[i..]: the calls made,
\* the first of them on the statistics stats
RECURSIVE BatchLoop(_, _, _), BatchFrom(_, _, _)
BatchLoop(pdf_paths, i, stats) ==
    IF i > Len(pdf_paths) THEN <<>>
    ELSE BatchFrom(pdf_paths, i, extract_references_from_pdf(pdf_paths[i], stats))

BatchFrom(pdf_paths, i, call) == <<call>> \o BatchLoop(pdf_paths, i + 1, call.stats)

Successes(made) == {n \in 1..Len(made) : made[n].result.status = "success"}

RECURSIVE SumReferences(_, _)
SumReferences(individual_results, stems) ==
    IF stems = {} THEN 0
    ELSE LET stem == CHOOSE s \in stems : TRUE
         IN  (IF individual_results[stem].status = "success"
              THEN Len(individual_results[stem].references[1])
              ELSE 0)
             + SumReferences(individual_results, stems \ {stem})

\* the sum of len(filtered_references) over the successful calls of made
RECURSIVE FilteredCount(_)
FilteredCount(made) ==
    IF made = <<>> THEN 0
    ELSE (IF Head(made).result.status = "success"
          THEN Len(Head(made).result.references[1])
          ELSE 0)
         + FilteredCount(Tail(made))

\* lines 1281-1326 for the calls made by the loop; batch_results[path] is
\* the result of the last call for the path
batch_extract_references(made) ==
    LET individual_results ==
            [stem \in {made[n].pdf.stem : n \in 1..Len(made)} |->
                made[SetMax({n \in 1..Len(made) : made[n].pdf.stem = stem})].result]
    IN  [batch_summary |->
            [total_files |-> Len(made),
             successful_extractions |-> Cardinality(Successes(made)),
             failed_extractions |-> Len(made) - Cardinality(Successes(made)),
             total_references_extracted |->
                 SumReferences(individual_results, DOMAIN individual_results)],
         individual_results |-> individual_results]

\* integrate_with_aras (lines 1342-1380): aras_system is given by what its
\* validate_citations does on each call, in order: it raises (raises holds
\* str(e)) or returns a dictionary with this status and these corrections
\* (none when the key is absent or its value is falsy).  The references are
\* changed in place and the key aras_integration is added to the dictionary.
integrate_with_aras(pdf_extraction_result, aras_system) ==
    IF pdf_extraction_result.status # "success" THEN pdf_extraction_result
    ELSE LET references == pdf_extraction_result.references[1]
             added(validation) ==
                 IF validation.raises # None
                 THEN <<" ARAS integration error: ", validation.raises[1]>>
                 ELSE IF validation.status # "success" THEN <<>>
                 ELSE <<" ARAS validation completed.">>
                      \o (IF validation.corrections # None
                          THEN <<" ARAS suggestions: ", validation.corrections[1]>>
                          ELSE <<>>)
         IN  [aras_integration |-> TRUE]
             @@ [pdf_extraction_result EXCEPT
                    !.references =
                        Some([i \in 1..Len(references) |->
                                 [references[i] EXCEPT
                                     !.extraction_notes =
                                         @ \o added(aras_system[i])]])]

MaxCalls == 3       \* calls of extract_references_from_pdf, and results handed
                    \* to integrate_with_aras, between two resets

\* the results that carry the key integrate_with_aras adds
Integrated ==
    Cardinality({n \in 1..Len(history) :
                    "aras_integration" \in DOMAIN history[n].result})

InitAgent ==
    /\ pc = "idle"
    /\ PDF_LIBRARIES_AVAILABLE \in BOOLEAN
    /\ SPREADSHEET_LIBRARIES_AVAILABLE \in BOOLEAN
    /\ processing_stats = NoStatistics
    /\ history = <<>>
    /\ batch_result = None
    /\ pdf_path = None
    /\ calls = <<>>
    /\ extraction_results = <<>>
    /\ best_result = None
    /\ extraction = None
    /\ raw_text = <<>>
    /\ references_section = None
    /\ section_lines = <<>>
    /\ candidates = <<>>
    /\ returned = <<>>
    /\ refs = <<>>
    /\ unique_references = <<>>
    /\ unique_twice = <<>>

Record(made) ==
    /\ history' = history \o made
    /\ processing_stats' = IF made = <<>> THEN processing_stats
                           ELSE made[Len(made)].stats

ExtractFromPdf ==
    /\ Len(history) + Integrated < MaxCalls
    /\ \E pdf \in AgentPdfs :
           Record(<<extract_references_from_pdf(pdf, processing_stats)>>)
    /\ batch_result' = None
    /\ UNCHANGED <<pc, dedup_vars, text_vars, pdf_vars,
                   SPREADSHEET_LIBRARIES_AVAILABLE>>

BatchExtract ==
    /\ \E n \in 0..(MaxCalls - Len(history) - Integrated) :
           \E pdf_paths \in [1..n -> AgentPdfs] :
               LET made == BatchLoop(pdf_paths, 1, processing_stats)
               IN  /\ Record(made)
                   /\ batch_result' = Some(batch_extract_references(made))
    /\ UNCHANGED <<pc, dedup_vars, text_vars, pdf_vars,
                   SPREADSHEET_LIBRARIES_AVAILABLE>>

ResetStatistics ==
    /\ processing_stats' = NoStatistics
    /\ history' = <<>>
    /\ batch_result' = None
    /\ UNCHANGED <<pc, dedup_vars, text_vars, pdf_vars,
                   SPREADSHEET_LIBRARIES_AVAILABLE>>

\* a caller hands one of the results it holds to integrate_with_aras, with
\* an aras_system that answers each citation in one of four ways.  The
\* dictionary is changed in place: the batch result that holds it (the last
\* call of the batch on this path) shows the change.
IntegrateWithAras ==
    /\ \E n \in 1..Len(history) :
           LET result == history[n].result
               held == IF result.status = "success" THEN result.references[1] ELSE <<>>
               answers ==
                   {[raises |-> Some("connection refused"), status |-> "",
                     corrections |-> None],
                    [raises |-> None, status |-> "error", corrections |-> None],
                    [raises |-> None, status |-> "success", corrections |-> None],
                    [raises |-> None, status |-> "success",
                     corrections |-> Some("['add the year']")]}
               first == IF batch_result = None THEN Len(history)
                        ELSE Len(history) - batch_result[1].batch_summary.total_files
               in_batch ==
                   /\ n > first
                   /\ \A m \in (n + 1)..Len(history) :
                          history[m].pdf.stem # history[n].pdf.stem
           IN  /\ \/ "aras_integration" \in DOMAIN result
                  \/ result.status # "success"
                  \/ Len(history) + Integrated < MaxCalls
               /\ \A i \in 1..Len(held) : Len(held[i].extraction_notes) < MaxNotes
               /\ \E aras_system \in [1..Len(held) -> answers] :
                      /\ history' =
                             [history EXCEPT
                                 ![n].result = integrate_with_aras(@, aras_system)]
                      /\ batch_result' =
                             IF in_batch
                             THEN Some([batch_result[1] EXCEPT
                                           !.individual_results[history[n].pdf.stem] =
                                               integrate_with_aras(@, aras_system)])
                             ELSE batch_result
    /\ UNCHANGED <<pc, dedup_vars, text_vars, pdf_vars,
                   SPREADSHEET_LIBRARIES_AVAILABLE, processing_stats>>

NextAgent == ExtractFromPdf \/ BatchExtract \/ ResetStatistics \/ IntegrateWithAras

SpecAgent == InitAgent /\ [][NextAgent]_vars

----------------------------------------------------------------------------
(* Claims. *)

\* C1: running _deduplicate_references on its own output returns the same
\* list: the second run merges and removes nothing.
C1_IdempotentDedup ==
    pc = "twice" => unique_twice = unique_references

\* C2: no two distinct entries of the list returned by
\* _deduplicate_references satisfy _are_references_similar, whichever
\* accepted entry an incoming candidate was compared with.
C2_OnePerIdentity ==
    pc # "start" =>
        \A i, j \in 1..Len(unique_references) :
            i < j => ~_are_references_similar(unique_references[i], unique_references[j])

\* C3: every reference returned by extract_references_from_text has no year
\* or a year within 1900..2030, whatever four digits the grammar captured.
C3_YearInWindow ==
    pc = "done" =>
        \A i \in 1..Len(returned) :
            \/ returned[i].year = None
            \/ returned[i].year[1] >= 1900 /\ returned[i].year[1] <= 2030

\* C4: the score _calculate_reference_completeness gives lies in 0..100
\* (hundredths), for every returned reference and for every combination of
\* populated and empty fields.
C4_ScoreInUnitInterval ==
    pc = "done" =>
        /\ \A i \in 1..Len(returned) :
               returned[i].confidence_score >= 0 /\ returned[i].confidence_score <= 100
        /\ \A filled \in [{"authors", "title", "year", "venue", "doi", "url",
                           "volume", "issue", "pages"} -> BOOLEAN] :
               LET value(name) == IF filled[name] THEN <<Wd(1, FALSE)>> ELSE <<>>
                   ref == [ExtractedReference(<<>>, value("title"), 0) EXCEPT
                              !.authors = IF filled["authors"] THEN <<value("authors")>>
                                          ELSE <<>>,
                              !.year = IF filled["year"] THEN Some(YearMin) ELSE None,
                              !.venue = value("venue"), !.doi = value("doi"),
                              !.url = value("url"), !.volume = value("volume"),
                              !.issue = value("issue"), !.pages = value("pages")]
                   score == _calculate_reference_completeness(ref)
               IN  score >= 0 /\ score <= 100

\* a returned reference with all four core fields and an optional one, whose
\* components add up to more than 100
C4_Witness ==
    /\ pc = "done"
    /\ \E i \in 1..Len(returned) :
           /\ returned[i].authors # <<>>
           /\ returned[i].title # <<>>
           /\ Truthy(returned[i].year)
           /\ returned[i].venue # <<>>
           /\ returned[i].doi # <<>>
           /\ returned[i].confidence_score = 100

\* C5: when the last candidate of the input matches an entry accepted from the
\* candidates before it, exactly one of the two is in the result: the
\* candidate when its confidence is strictly higher, and otherwise the
\* accepted entry. Every entry of the result is one of the input references
\* with all of its fields, never a merge of two.
C5_CollisionRule ==
    pc # "start" =>
        /\ \A i \in 1..Len(unique_references) :
               \E j \in 1..Len(refs) : unique_references[i] = refs[j]
        /\ refs # <<>> =>
               LET accepted == _deduplicate_references(SubSeq(refs, 1, Len(refs) - 1))
                   incoming == refs[Len(refs)]
                   times(l, x) == Cardinality({i \in 1..Len(l) : l[i] = x})
               IN  \A j \in 1..Len(accepted) :
                       _are_references_similar(incoming, accepted[j]) =>
                           IF incoming.confidence_score > accepted[j].confidence_score
                           THEN /\ times(unique_references, incoming) > 0
                                /\ times(unique_references, accepted[j]) = 0
                           ELSE /\ times(unique_references, accepted[j]) > 0
                                /\ times(unique_references, incoming)
                                       = times(accepted, incoming)

\* C6: two references whose titles are both non-empty and whose title
\* similarity is not above 0.8 are never merged, whatever their full texts.
C6_TitleRuleDecides ==
    (/\ pc # "start"
     /\ Len(refs) = 2
     /\ refs[1].title # <<>>
     /\ refs[2].title # <<>>
     /\ ~Exceeds(_calculate_string_similarity(refs[1].title, refs[2].title), 8))
    => unique_references = refs

\* C7: two references whose titles differ only in letter case and attached
\* punctuation come out of _deduplicate_references as one reference, with
\* the higher of the two confidences.
C7_CaseAndPunctuationMerged ==
    LET letters(t) == t.c # "pn"
        fold(title) == lower(SelectSeq(title, letters))
    IN  (/\ pc # "start"
         /\ Len(refs) = 2
         /\ refs[1].title # <<>>
         /\ refs[2].title # <<>>
         /\ fold(refs[1].title) = fold(refs[2].title))
        => /\ Len(unique_references) = 1
           /\ unique_references[1].confidence_score
                  = SetMax({refs[1].confidence_score, refs[2].confidence_score})

\* C8: when the region has n markers "[k]", each followed by text that is not
\* blank, _split_into_references returns exactly n candidates in marker
\* order, the j-th being the j-th marker, a space, and the stripped text up to
\* the next marker.
C8_OnePerMarker ==
    (pc = "done" /\ references_section # None /\ references_section[1] # <<>>) =>
        LET region == references_section[1]
            ms == {i \in 1..Len(region) : region[i].c = "mk"}
            until(i) == SetMin({j \in ms \cup {Len(region) + 1} : j > i})
            body(i) == strip(SubSeq(region, i + 1, until(i) - 1))
            rank(i) == Cardinality({j \in ms : j <= i})
        IN  (ms # {} /\ \A i \in ms : body(i) # <<>>) =>
                /\ Len(section_lines) = Cardinality(ms)
                /\ \A i \in ms :
                       section_lines[rank(i)] = <<region[i], SP>> \o body(i)

\* a region of two or more markers, each followed by text, has been split
C8_Witness ==
    /\ pc = "done"
    /\ references_section # None
    /\ LET region == references_section[1]
           ms == {i \in 1..Len(region) : region[i].c = "mk"}
       IN  /\ Cardinality(ms) >= 2
           /\ \A i \in ms : i < Len(region) /\ region[i + 1].c # "mk"
           /\ Len(section_lines) = Cardinality(ms)
           /\ \E j \in 1..Len(section_lines) : Len(section_lines[j]) > 3

\* C9: a reference built from a candidate split off at marker "[k]" has
\* reference_number k.
C9_SourceNumbering ==
    pc = "done" =>
        \A l \in {candidates, returned} : \A i \in 1..Len(l) :
            (l[i].full_text # <<>> /\ l[i].full_text[1].c = "mk")
            => l[i].reference_number = Some(l[i].full_text[1].v)

\* C10: for a text with no bibliography header the region pass runs over the
\* whole text: the candidates split off and the references parsed are those
\* of the entire document.
C10_WholeDocumentFallback ==
    (pc = "done" /\ \A i \in 1..Len(raw_text) : raw_text[i].c # "hd") =>
        /\ section_lines = _split_into_references(raw_text)
        /\ candidates = _parse_references_section(raw_text)
                        \o _find_numbered_references(raw_text)

\* C11: the region _find_references_section returns ends where the earliest
\* trailing-section header after the section header stands: no trailing
\* header, and so nothing that follows one, is part of the region.
C11_RegionEndsAtEarliestTrailer ==
    (pc = "found" /\ references_section # None) =>
        \A i \in 1..Len(references_section[1]) : references_section[1][i].c # "tr"

\* C12: when one of the five headers stands alone on a line of the document
\* (whitespace around it allowed), on the first, a middle or the last line,
\* _find_references_section finds a region.
C12_HeaderOnAnyLine ==
    (/\ pc = "found"
     /\ \E n \in 1..Len(split_lines(raw_text)) :
            /\ Len(strip(split_lines(raw_text)[n])) = 1
            /\ strip(split_lines(raw_text)[n])[1].c = "hd")
    => references_section # None

\* C13: no candidate of fewer than 20 characters becomes a reference: every
\* reference either pass builds has a text of 20 characters or more, and
\* every returned reference is the cleaned form of such a reference.
C13_MinimumLength ==
    pc = "done" =>
        /\ \A i \in 1..Len(candidates) : StrLen(candidates[i].full_text) >= 20
        /\ \A i \in 1..Len(returned) : \E j \in 1..Len(candidates) :
               /\ StrLen(candidates[j].full_text) >= 20
               /\ returned[i].full_text = _clean_reference_text(candidates[j].full_text)

\* the region pass has split off a candidate of fewer than 20 characters and
\* one of 20 or more, and only the latter is returned
C13_Witness ==
    /\ pc = "done"
    /\ \E i \in 1..Len(section_lines) : StrLen(section_lines[i]) < 20
    /\ \E i \in 1..Len(section_lines) : StrLen(section_lines[i]) = 20
    /\ Len(returned) = 1

\* C14: the citation_style of every reference built is the first of apa,
\* mla, chicago, ieee, in this order, that has a pattern matching the
\* candidate, also when patterns of two styles match.
C14_StylePrecedence ==
    pc = "done" =>
        \A i \in 1..Len(candidates) :
            LET order == <<"apa", "mla", "chicago", "ieee">>
                matching == {n \in 1..4 : re_search(order[n], candidates[i].full_text) # None}
            IN  candidates[i].citation_style =
                    IF matching = {} THEN "" ELSE order[SetMin(matching)]

\* a candidate that patterns of apa and of ieee match, and one that patterns
\* of mla and of chicago match, have been labelled
C14_Witness ==
    /\ pc = "done"
    /\ \E i \in 1..Len(candidates) :
           /\ re_search("apa", candidates[i].full_text) # None
           /\ re_search("ieee", candidates[i].full_text) # None
           /\ candidates[i].citation_style = "apa"
    /\ \E i \in 1..Len(candidates) :
           /\ re_search("mla", candidates[i].full_text) # None
           /\ re_search("chicago", candidates[i].full_text) # None
           /\ candidates[i].citation_style = "mla"

\* C15: a reference built from a match of a pattern of apa, mla, chicago or
\* ieee has that citation_style, confidence 0.8 and its authors, title,
\* venue and year (every pattern captures one) populated.
C15_FieldsFromGroups ==
    pc = "done" =>
        \A i \in 1..Len(candidates) :
            candidates[i].citation_style \in {"apa", "mla", "chicago", "ieee"} =>
                /\ candidates[i].confidence_score = 80
                /\ candidates[i].authors # <<>>
                /\ candidates[i].title # <<>>
                /\ candidates[i].venue # <<>>
                /\ candidates[i].year # None

\* C16: a reference built from a candidate no pattern matches has the
\* candidate as full_text, citation_style "unknown", confidence 0.3, the
\* note that pattern matching failed, and no authors, title, year or venue.
C16_UnparsedRecord ==
    pc = "done" =>
        \A i \in 1..Len(candidates) :
            (\A style \in {"apa", "mla", "chicago", "ieee"} :
                 re_search(style, candidates[i].full_text) = None)
            => /\ candidates[i].full_text # <<>>
               /\ candidates[i].citation_style = "unknown"
               /\ candidates[i].confidence_score = 30
               /\ candidates[i].extraction_notes
                      = <<"Pattern matching failed, basic extraction only">>
               /\ candidates[i].authors = <<>>
               /\ candidates[i].title = <<>>
               /\ candidates[i].year = None
               /\ candidates[i].venue = <<>>

\* C17: a reference built from a candidate no pattern matches still has the
\* doi, url, isbn, volume, issue and pages its text holds, and a
\* reference_type among journal, conference, book, website, thesis, unknown.
C17_EnricherOnEveryCandidate ==
    pc = "done" =>
        \A i \in 1..Len(candidates) :
            (\A style \in {"apa", "mla", "chicago", "ieee"} :
                 re_search(style, candidates[i].full_text) = None)
            => /\ candidates[i].reference_type \in
                      {"journal", "conference", "book", "website", "thesis", "unknown"}
               /\ candidates[i].doi = MetaField(candidates[i].full_text, "doi")
               /\ candidates[i].url = MetaField(candidates[i].full_text, "url")
               /\ candidates[i].isbn = MetaField(candidates[i].full_text, "isbn")
               /\ candidates[i].volume = MetaField(candidates[i].full_text, "volume")
               /\ candidates[i].issue = MetaField(candidates[i].full_text, "issue")
               /\ candidates[i].pages = MetaField(candidates[i].full_text, "pages")


\* C18: every reference that survives deduplication ends with the score
\* min(1, 0.3*[authors non-empty] + 0.3*[title non-empty] + 0.2*[year present]
\* + 0.2*[venue non-empty] + 0.2*(k/5)), k counting the non-empty fields
\* among doi, url, volume, issue and pages (scores in hundredths).
C18_ScoreFormula ==
    pc = "done" =>
        \A i \in 1..Len(returned) :
            LET r == returned[i]
                k == Cardinality({f \in {"doi", "url", "volume", "issue", "pages"} :
                                      r[f] # <<>>})
                s == (IF r.authors # <<>> THEN 30 ELSE 0)
                     + (IF r.title # <<>> THEN 30 ELSE 0)
                     + (IF r.year # None THEN 20 ELSE 0)
                     + (IF r.venue # <<>> THEN 20 ELSE 0)
                     + (20 * k) \div 5
            IN  r.confidence_score = IF s > 100 THEN 100 ELSE s


\* C19: whenever at least one recorded result is successful,
\* _select_best_extraction returns a successful result whose quality score
\* is the greatest among the successful ones, the earliest of them in the
\* order pdfplumber, pypdf2, ocr when several have that score; and a failed
\* result is never returned.
C19_ArbiterSelection ==
    pc = "returned" =>
        LET ok == {n \in 1..Len(extraction_results) :
                       Get(extraction_results[n].result.success, FALSE)}
            q(n) == Get(extraction_results[n].result.quality_score, Zero)
        IN  /\ best_result[1].success # Some(FALSE)
            /\ ok # {} =>
                   \E n \in ok :
                       /\ best_result[1] = extraction_results[n].result
                       /\ \A m \in ok : ~gt(q(m), q(n))
                       /\ \A m \in ok : q(m) = q(n) => n <= m

\* C20: extract_text_from_pdf invokes pdfplumber, pypdf2 and ocr once each,
\* one after the other in that order; a backend that raises is recorded as an
\* unsuccessful result and the backends after it are still invoked, as they
\* are after a backend that succeeded.
C20_BackendSequencing ==
    /\ Len(calls) <= 3
    /\ \A n \in 1..Len(calls) : calls[n] = <<"pdfplumber", "pypdf2", "ocr">>[n]
    /\ pc = "returned" =>
           /\ calls = <<"pdfplumber", "pypdf2", "ocr">>
           /\ Len(extraction[1].all_results) = 3
           /\ \A n \in 1..3 :
                  /\ extraction[1].all_results[n].method = calls[n]
                  /\ extraction[1].all_results[n].result.success
                         = Some(pdf_path[calls[n]] # None)

C20_Witness ==
    /\ pc = "returned"
    /\ pdf_path["pdfplumber"] # None
    /\ pdf_path["pypdf2"] = None
    /\ calls = <<"pdfplumber", "pypdf2", "ocr">>
    /\ extraction[1].all_results[1].result.success = Some(TRUE)
    /\ extraction[1].all_results[2].result.success = Some(FALSE)
    /\ extraction[1].all_results[3].result.success = Some(TRUE)


\* C24: every reference in the list extract_references_from_text returns has
\* a non-empty full_text after cleaning, also when the candidate was 20 or
\* more characters of whitespace and stripped punctuation only.
C24_FullTextNeverEmpty ==
    pc = "done" => \A i \in 1..Len(returned) : returned[i].full_text # <<>>


\* C25: a reference whose parsed year lies outside 1900..2030 leaves
\* _enhance_reference_quality with year None and the invalid-year note
\* appended, still in the list, its other fields unchanged but for cleaning,
\* and scored as having no year; one whose year lies inside keeps its year
\* and gets no such note.
C25_InvalidYearRecovery ==
    pc = "done" =>
        LET before == _deduplicate_references(candidates)
        IN  /\ Len(returned) = Len(before)
            /\ \A i \in 1..Len(before) :
                   before[i].year # None =>
                       IF before[i].year[1] < 1900 \/ before[i].year[1] > 2030
                       THEN returned[i] =
                                [before[i] EXCEPT
                                    !.full_text = _clean_reference_text(@),
                                    !.title = _clean_reference_text(@),
                                    !.venue = _clean_reference_text(@),
                                    !.year = None,
                                    !.extraction_notes =
                                        Append(@, "Invalid year detected. "),
                                    !.confidence_score =
                                        returned[i].confidence_score]
                            /\ returned[i].confidence_score =
                                   _calculate_reference_completeness(
                                       [returned[i] EXCEPT !.year = None])
                       ELSE /\ returned[i].year = before[i].year
                            /\ returned[i].extraction_notes
                                   = before[i].extraction_notes


\* C26: when the region-based pass and the global numbered pass both produce
\* a candidate for the same bracket-numbered reference ("[n] text" and
\* "text"), deduplication merges the two, so at most one entry of the
\* returned list stands for that reference, with or without a matching
\* citation grammar and however few words the text has.
C26_PassesConverge ==
    pc = "done" =>
        \A i, j \in 1..Len(candidates) :
            (/\ candidates[i].full_text # <<>>
             /\ candidates[i].full_text[1].c = "mk"
             /\ candidates[j].reference_number = Some(candidates[i].full_text[1].v)
             /\ candidates[i].full_text
                    = <<candidates[i].full_text[1], SP>> \o candidates[j].full_text)
            => Cardinality({n \in 1..Len(returned) :
                               returned[n].full_text
                                   \in {_clean_reference_text(candidates[i].full_text),
                                        _clean_reference_text(candidates[j].full_text)}})
                   <= 1


\* C27: for a bracket-numbered reference "[n] text" of the references
\* section, the region-based pass and the global numbered pass both keep it
\* when text has 20 or more characters and both drop it when it has fewer:
\* the marker does not count, and a text of exactly 20 characters is kept.
C27_SameMinimumLength ==
    pc = "done" =>
        \A i \in 1..Len(section_lines) :
            (/\ Len(section_lines[i]) = 3
             /\ section_lines[i][1].c = "mk"
             /\ section_lines[i][3].c = "tx")
            => LET text == <<section_lines[i][3]>>
                   long == StrLen(text) >= 20
                   region == \E n \in 1..Len(candidates) :
                                 candidates[n].full_text = section_lines[i]
                   global == \E n \in 1..Len(candidates) :
                                 /\ candidates[n].full_text = text
                                 /\ candidates[n].reference_number
                                        = Some(section_lines[i][1].v)
               IN  (region <=> long) /\ (global <=> long)


\* C28: for every marker [n] of the document, the candidate of
\* _find_numbered_references runs from the marker to the next marker, the
\* next blank-line boundary or the end of the document, so that a reference
\* continued over consecutive non-blank lines is captured with all its lines.
C28_NumberedExtent ==
    pc = "done" =>
        \A i \in 1..Len(raw_text) :
            raw_text[i].c = "mk" =>
                LET stops == {j \in (i + 1)..Len(raw_text) :
                                \/ raw_text[j].c = "mk"
                                \/ /\ raw_text[j].c = "nl"
                                   /\ \E m \in (j + 1)..Len(raw_text) :
                                          /\ raw_text[m].c = "nl"
                                          /\ AllSpace(raw_text, j + 1, m - 1)}
                    upto == IF stops = {} THEN Len(raw_text) ELSE SetMin(stops) - 1
                    extent == strip(SubSeq(raw_text, i + 1, upto))
                IN  StrLen(extent) > 20 =>
                        \E n \in 1..Len(candidates) :
                            /\ candidates[n].reference_number = Some(raw_text[i].v)
                            /\ candidates[n].full_text = extent


\* C21: in a call of extract_references_from_pdf on a file that exists, is
\* not too large and is read with the PDF libraries available, when every
\* extraction method fails the call returns status "error", without
\* references or output files and with no file written; when some method
\* succeeds with a text that is not empty the call returns status "success",
\* whatever the other methods did.
C21_AllBackendsFail ==
    \A n \in 1..Len(history) :
        LET call == history[n]
            results == ExtractorOn[call.pdf].all_results
        IN  (call.pdf.exists /\ ~call.pdf.too_large /\ PDF_LIBRARIES_AVAILABLE) =>
                /\ (\A k \in 1..Len(results) : ~Get(results[k].result.success, FALSE))
                       => /\ call.result.status = "error"
                          /\ call.result.references = None
                          /\ call.result.output_files = None
                          /\ call.written = <<>>
                /\ (\E k \in 1..Len(results) :
                        /\ Get(results[k].result.success, FALSE)
                        /\ results[k].result.text.char_count > 0)
                       => call.result.status = "success"

\* one agent has returned an error for a file no method could read and a
\* success for a file one method read while another failed
C21_Witness ==
    /\ PDF_LIBRARIES_AVAILABLE
    /\ \E n, m \in 1..Len(history) :
           LET failed == ExtractorOn[history[n].pdf].all_results
               partly == ExtractorOn[history[m].pdf].all_results
           IN  /\ history[n].pdf.exists /\ ~history[n].pdf.too_large
               /\ \A k \in 1..Len(failed) : ~Get(failed[k].result.success, FALSE)
               /\ history[n].result.status = "error"
               /\ history[n].written = <<>>
               /\ history[m].pdf.exists /\ ~history[m].pdf.too_large
               /\ \E k \in 1..Len(partly) : ~Get(partly[k].result.success, FALSE)
               /\ \E k \in 1..Len(partly) :
                      /\ Get(partly[k].result.success, FALSE)
                      /\ partly[k].result.text.char_count > 0
               /\ history[m].result.status = "success"

\* C22: a call of extract_references_from_pdf whose extracted text is empty
\* or whitespace alone returns status "error", and extract_references_from_text
\* has returned no list for it.
C22_MalformedInputFatal ==
    \A n \in 1..Len(history) :
        (history[n].text # None /\ history[n].text[1].word_count = 0) =>
            /\ history[n].result.status = "error"
            /\ history[n].references = None

\* C23: a call of extract_references_from_pdf on a text with words in which
\* neither pass of extract_references_from_text finds a candidate returns
\* status "error", and a call that returns status "success" returns at least
\* one reference.
C23_NoCandidatesFatal ==
    \A n \in 1..Len(history) :
        /\ (/\ history[n].text # None
            /\ history[n].text[1].word_count > 0
            /\ history[n].references # None
            /\ ParserOn[history[n].text[1]].candidates = <<>>)
               => history[n].result.status = "error"
        /\ (history[n].result.status = "success" /\ history[n].text[1].word_count > 0)
               => history[n].result.references[1] # <<>>

\* C29: every reference extract_references_from_text returned for a
\* candidate no pattern matched has confidence_score 0, and is neither among
\* the references extract_references_from_pdf returns nor in any file it
\* wrote.
C29_UnparsedExcluded ==
    \A n \in 1..Len(history) :
        history[n].references # None =>
            \A i \in 1..Len(history[n].references[1]) :
                LET ref == history[n].references[1][i]
                IN  ref.extraction_notes
                        = <<"Pattern matching failed, basic extraction only">>
                    => /\ ref.confidence_score = 0
                       /\ \A k \in 1..Len(history[n].result.references[1]) :
                              history[n].result.references[1][k] # ref
                       /\ \A f \in DOMAIN history[n].written :
                              \A k \in 1..Len(history[n].written[f]) :
                                  history[n].written[f][k] # ref

\* a call found a matched and an unmatched reference, returned the matched
\* one alone and wrote files
C29_Witness ==
    \E n \in 1..Len(history) :
        /\ history[n].references # None
        /\ \E i \in 1..Len(history[n].references[1]) :
               history[n].references[1][i].extraction_notes
                   = <<"Pattern matching failed, basic extraction only">>
        /\ history[n].result.references[1] # <<>>
        /\ Len(history[n].result.references[1]) < Len(history[n].references[1])
        /\ "json" \in DOMAIN history[n].written
        /\ history[n].written["json"] = history[n].result.references[1]

\* C30: between two resets total_pdfs_processed is the number of calls of
\* extract_references_from_pdf that returned "success", processing_errors has
\* one entry for each call that returned "error", and
\* total_references_extracted is the sum of the numbers of references the
\* successful calls returned; every call returns one of the two statuses, and
\* a batch makes one call for each of its paths, failed or not.
C30_Statistics ==
    /\ processing_stats.total_pdfs_processed = Cardinality(Successes(history))
    /\ Len(processing_stats.processing_errors)
           = Len(history) - Cardinality(Successes(history))
    /\ processing_stats.total_references_extracted = FilteredCount(history)
    /\ \A n \in 1..Len(history) : history[n].result.status \in {"success", "error"}
    /\ batch_result # None =>
           LET summary == batch_result[1].batch_summary
               first == Len(history) - summary.total_files
           IN  /\ first >= 0
               /\ summary.successful_extractions + summary.failed_extractions
                      = summary.total_files
               /\ summary.failed_extractions
                      = Cardinality({n \in (first + 1)..Len(history) :
                                        history[n].result.status = "error"})

\* a batch in which a file failed and a later file gave references
C30_Witness ==
    /\ batch_result # None
    /\ batch_result[1].batch_summary.total_files = Len(history)
    /\ \E n, m \in 1..Len(history) :
           /\ n < m
           /\ history[n].result.status = "error"
           /\ history[m].result.status = "success"
           /\ history[m].result.references[1] # <<>>
    /\ processing_stats.total_references_extracted > 0
    /\ processing_stats.processing_errors # <<>>

====
